---- MODULE Spec2Model ----
(***************************************************************************)
(* BERT inference harnesses of aws-k8s-tester.                             *)
(*                                                                         *)
(*   neuron_mt : test/images/neuron-inference/infer.py  (thread-pool       *)
(*               fan-out over n_models replicas of the traced model)       *)
(*   neuron_st : e2e2/test/images/neuron-inference/infer.py (one loop)     *)
(*   nvidia_st : e2e2/test/images/nvidia-inference/infer.py (one loop)     *)
(*                                                                         *)
(* A behaviour is one process run: main(), then run_inference().  The      *)
(* external runtimes (device probe, model load, tracing, a model call)     *)
(* are inputs: each either succeeds or raises.  time.time() reads the      *)
(* variable now, which Tick advances.                                      *)
(*                                                                         *)
(* Spec is the whole run of the three harnesses.  The other specifications *)
(* follow one part in detail: SpecAgg and SpecPct the metrics of neuron_mt, *)
(* SpecProbe get_neuron_monitor_stats(), SpecMode the INFERENCE_MODE lookup *)
(* (bert_st is e2e2/test/images/bert-inference/infer.py), SpecData          *)
(* create_dummy_data(), SpecRows the single loops row by row, SpecRetry the *)
(* batch loops that may fail: the loop of neuron_st and the batch-size      *)
(* search of hack/optimize (train_opt, infer_opt).                          *)
(*                                                                         *)
(* Three more programs of the repository run as jobs of several processes: *)
(* SpecReduce is test/images/neuron/tests/testNeuronSingleAllReduce.py,     *)
(* SpecTrain the training jobs e2e2/test/images/{nvidia,neuron}-training,   *)
(* SpecDriver one process of                                                *)
(* e2e2/test/images/neuron/tests/testNeuronParallelState.py.                *)
(***************************************************************************)
EXTENDS Integers, Sequences, FiniteSets, TLC

\* ---- bounds of the model -------------------------------------------------
MaxB == 5          \* largest number of batches the DataLoader yields
MaxT == 3          \* largest n_threads passed to run_inference
MaxR == 2          \* largest n_models (neuroncore_per_device_count)
MaxTime == 1       \* largest clock reading
MaxAggLen == 3     \* longest latency list handed to the aggregation alone
MaxAggTick == 2    \* largest per-batch duration (in ticks) in such a list
MaxSeed == 2       \* largest seed tried besides the default one
MaxSamples == 10   \* largest num_samples asked of create_dummy_data
MaxPrior == 2      \* largest generator state found before a call
MaxWorld == 2       \* largest number of processes in a distributed job
MaxXrtWorld == 8    \* largest xm.xrt_world_size() seen by the parallel-state driver
MaxPctLen == 5      \* longest list of distinct latency samples handed to the percentiles

\* ---- program constants ---------------------------------------------------
ThroughputBatchSize == 8
LatencyBatchSize == 1
DefaultThreads == 2
MsPerSecond == 1000
PctScale == 100      \* np.percentile takes q in percent

Scripts == {"neuron_mt", "neuron_st", "nvidia_st"}
NeuronScripts == {"neuron_mt", "neuron_st"}
Modes == {"throughput", "latency"}
Workers == 1..MaxT
Ranks == 0..(MaxWorld - 1)

VARIABLES
    script,          \* which entry point this process runs
    pc,              \* position of the main thread
    error,           \* exception that ended the run ("none" while there is none)
    now,             \* the wall clock read by time.time()
    env_ok,          \* the environment check has passed
    mode,            \* resolved INFERENCE_MODE
    batch_size,      \* 1 or 8
    model_loaded,    \* tokenizer and model were loaded
    dataset,         \* create_dummy_data has returned a dataset
    nbatches,        \* len(dataloader)
    traced,          \* torch_neuronx.trace has returned
    started,         \* the inference loop / fan-out has been entered
    n_threads,       \* run_inference argument (neuron_mt)
    n_models,        \* run_inference argument (neuron_mt)
    thread_batches,  \* the partitions, a sequence of sequences of batch ids
    submitted,       \* number of pool.submit calls made
    wpc,             \* per worker task: none / ready / calling / done / failed
    wmodel,          \* per worker task: index of its replica in models_neuron
    wbatches,        \* per worker task: its partition
    wdone,           \* per worker task: batches it has run through the model
    wstart,          \* per worker task: start of the call in flight (0 when none)
    wrows,           \* per worker task: local_rows_processed
    collected,       \* futures whose result() the main thread has taken
    latencies,       \* the shared latency list, in milliseconds
    rows_processed,  \* sum of the collected results (single loop: rows run so far)
    begin,           \* clock before the fan-out
    end,             \* clock after the pool has joined
    st_idx,          \* single loop: batches completed
    st_start,        \* single loop: start_time of the call in flight (0 when none)
    total_time,      \* single loop: accumulated batch time
    metrics,         \* the metrics reports logged, in order
    proc,            \* probe: the neuron-monitor subprocess (none / running / terminated / waited)
    lines_read,      \* probe: readline() calls made on its stdout
    output,          \* probe: the line read
    env_mode,        \* the raw INFERENCE_MODE of the environment
    stdout,          \* lines printed besides the metrics reports, in order
    seed,            \* create_dummy_data argument
    num_samples,     \* create_dummy_data argument
    rng,             \* state of the process-wide generator of module random
    records,         \* the (sentence_a, sentence_b, nsp_label) built by the call in progress
    call,            \* number of create_dummy_data calls begun
    first_records,   \* what the first create_dummy_data call returned
    bs_idx,          \* batch-size search: position in batch_sizes
    world_size,      \* number of processes of the distributed job
    rank_pc,         \* per rank: position of that process
    rank_step,       \* per rank: loop iterations completed
    xones,           \* per rank: the all-ones tensor on the device
    result_cpu,      \* per rank: the last all-reduce result copied to the host
    reduced,         \* per all-reduce round: the tensors contributed, by rank
    printed,         \* per rank: "Average Throughput" lines printed
    group,           \* per rank: the process group (none / initialized / destroyed)
    tensor_model_parallel_size,  \* parallel-state driver: the size under test
    test,            \* parallel-state driver: the test function being run
    mp_initialized,  \* parallel_state.model_parallel_is_initialized()
    results          \* results["inference_success"]

vars == <<script, pc, error, now, env_ok, mode, batch_size, model_loaded,
          dataset, nbatches, traced, started, n_threads, n_models,
          thread_batches, submitted, wpc, wmodel, wbatches, wdone, wstart,
          wrows, collected, latencies, rows_processed, begin, end,
          st_idx, st_start, total_time, metrics,
          proc, lines_read, output, env_mode, stdout,
          seed, num_samples, rng, records, call, first_records, bs_idx,
          world_size, rank_pc, rank_step, xones, result_cpu, reduced,
          printed, group, tensor_model_parallel_size, test, mp_initialized,
          results>>

mainVars == <<script, env_ok, mode, batch_size, model_loaded>>
dataVars == <<dataset, nbatches, traced, started>>
poolVars == <<n_threads, n_models, thread_batches, submitted, collected,
              rows_processed, begin, end>>
workerVars == <<wpc, wmodel, wbatches, wdone, wstart, wrows, latencies>>
loopVars == <<st_idx, st_start, total_time>>
probeVars == <<proc, lines_read, output>>
builderVars == <<seed, num_samples, rng, records, call, first_records>>
rankVars == <<world_size, rank_pc, rank_step>>
reduceVars == <<xones, result_cpu, reduced>>
trainVars == <<printed, group>>
driverVars == <<tensor_model_parallel_size, test, mp_initialized, results>>
distVars == <<rankVars, reduceVars, trainVars, driverVars>>
extVars == <<probeVars, env_mode, stdout, builderVars, bs_idx, distVars>>

\* ---- helpers -------------------------------------------------------------
Min(a, b) == IF a < b THEN a ELSE b

CeilDiv(a, b) == (a + b - 1) \div b

RECURSIVE SumLen(_)
SumLen(ss) == IF ss = <<>> THEN 0 ELSE Len(Head(ss)) + SumLen(Tail(ss))

\* f[1] + ... + f[n]
RECURSIVE SumTo(_, _)
SumTo(f, n) == IF n = 0 THEN 0 ELSE f[n] + SumTo(f, n - 1)

Range(s) == {s[k] : k \in 1..Len(s)}

\* list(dataloader): the batches in order, named 1..n
AllBatches(n) == [k \in 1..n |-> k]

\* [all_batches[i:i + step] for i in range(0, len(all_batches), step)], step >= 1
Chunks(all, step) ==
    [k \in 1..CeilDiv(Len(all), step) |->
        SubSeq(all, (k - 1) * step + 1, Min(k * step, Len(all)))]

\* variant: the last chunk is popped without being merged
MergeLastDropped(tb, T) ==
    IF Len(tb) > T THEN SubSeq(tb, 1, Len(tb) - 1) ELSE tb

\* if len(thread_batches) > n_threads: thread_batches[-2].extend(thread_batches[-1]); pop()
MergeLast(tb, T) ==
    IF Len(tb) > T
    THEN [k \in 1..(Len(tb) - 1) |->
            IF k = Len(tb) - 1 THEN tb[k] \o tb[k + 1] ELSE tb[k]]
    ELSE tb

\* the partitioning step for batches_per_thread >= 1
ThreadBatches(all, T) == MergeLast(Chunks(all, Len(all) \div T), T)

\* variant: consecutive pairs of tasks are given the same replica
ModelIndexPaired(i, R) == (i \div 2) % R

\* model_index = i % len(models_neuron), for the 0-based submit index i
ModelIndex(i, R) == i % R

\* variant: an append that stores into the slot of the previous append
ListAppendLossy(list, x) ==
    IF list = <<>> THEN <<x>> ELSE [list EXCEPT ![Len(list)] = x]

\* latencies.append(x)
ListAppend(list, x) == Append(list, x)

\* future.done()
Finished(w) == wpc[w] \in {"done", "failed"}

Terminated == pc \in {"done", "exit1", "raised"}

\* the exit status of the process: sys.exit(1) and an uncaught exception give
\* 1, the end of main gives 0; -1 while the process runs
ExitStatus ==
    IF pc = "done" THEN 0 ELSE IF pc \in {"exit1", "raised"} THEN 1 ELSE -1

NoWorkers == [w \in Workers |-> 0]

\* INFERENCE_MODE is not in the environment.
Unset == "<unset>"

\* Nothing has been read from a probe subprocess.
NoOutput == [kind |-> "none"]

\* The generator of module random before anything seeded or drew from it.
FreshRng == 0

\* No probe subprocess has been started.
ProbeIdle ==
    /\ proc = "none"
    /\ lines_read = 0
    /\ output = NoOutput

\* create_dummy_data has not been called.
BuilderIdle ==
    /\ seed = 0
    /\ num_samples = 0
    /\ rng = FreshRng
    /\ records = <<>>
    /\ call = 0
    /\ first_records = <<>>

\* No tensor has been created on any rank.
NoTensors == [r \in Ranks |-> <<>>]

\* No distributed job runs and the parallel-state driver has not started.
DistIdle ==
    /\ world_size = 1
    /\ rank_pc = [r \in Ranks |-> "none"]
    /\ rank_step = [r \in Ranks |-> 0]
    /\ xones = NoTensors
    /\ result_cpu = NoTensors
    /\ reduced = <<>>
    /\ printed = [r \in Ranks |-> 0]
    /\ group = [r \in Ranks |-> "none"]
    /\ tensor_model_parallel_size = 0
    /\ test = "none"
    /\ mp_initialized = FALSE
    /\ results = 1

\* The probe, the mode lookup, the dataset builder, the batch-size search and
\* the distributed jobs before any of them has run.
ExtIdle ==
    /\ DistIdle
    /\ ProbeIdle
    /\ BuilderIdle
    /\ env_mode = Unset
    /\ stdout = <<>>
    /\ bs_idx = 0

\* main() before anything was checked, resolved or loaded.
SetupIdle ==
    /\ env_ok = FALSE
    /\ mode = "throughput"
    /\ batch_size = ThroughputBatchSize
    /\ model_loaded = FALSE
    /\ dataset = FALSE
    /\ nbatches = 0
    /\ traced = FALSE
    /\ started = FALSE

\* No fan-out has been set up.
FanOutIdle ==
    /\ n_threads = DefaultThreads
    /\ n_models = 1
    /\ thread_batches = <<>>
    /\ submitted = 0
    /\ wpc = [w \in Workers |-> "none"]
    /\ wmodel = NoWorkers
    /\ wbatches = [w \in Workers |-> <<>>]
    /\ wdone = NoWorkers
    /\ wstart = NoWorkers
    /\ wrows = NoWorkers
    /\ collected = {}
    /\ latencies = <<>>
    /\ rows_processed = 0
    /\ begin = 0
    /\ end = 0

\* No batch loop has been entered and nothing was reported.
LoopIdle ==
    /\ now = 0
    /\ st_idx = 0
    /\ st_start = 0
    /\ total_time = 0
    /\ metrics = <<>>

Init ==
    /\ script \in Scripts
    /\ pc = "start"
    /\ error = "none"
    /\ now = 0
    /\ env_ok = FALSE
    /\ mode = "throughput"
    /\ batch_size = ThroughputBatchSize
    /\ model_loaded = FALSE
    /\ dataset = FALSE
    /\ nbatches = 0
    /\ traced = FALSE
    /\ started = FALSE
    /\ n_threads = DefaultThreads
    /\ n_models = 1
    /\ thread_batches = <<>>
    /\ submitted = 0
    /\ wpc = [w \in Workers |-> "none"]
    /\ wmodel = NoWorkers
    /\ wbatches = [w \in Workers |-> <<>>]
    /\ wdone = NoWorkers
    /\ wstart = NoWorkers
    /\ wrows = NoWorkers
    /\ collected = {}
    /\ latencies = <<>>
    /\ rows_processed = 0
    /\ begin = 0
    /\ end = 0
    /\ st_idx = 0
    /\ st_start = 0
    /\ total_time = 0
    /\ metrics = <<>>
    /\ ExtIdle

\* ---- the clock -----------------------------------------------------------
\* Only differences of clock readings are used and the first reading is taken
\* when the loop or the fan-out is entered, so the clock stands at 0 until then.
Tick ==
    /\ started
    /\ ~Terminated
    /\ now < MaxTime
    /\ now' = now + 1
    /\ UNCHANGED <<extVars, pc, error, mainVars, dataVars, poolVars, workerVars,
                   loopVars, metrics>>

\* ---- main() --------------------------------------------------------------
\* variant: the failure is logged and main carries on
EnvCheckFailContinue ==
    /\ pc' = "resolve_mode"
    /\ error' = error
    /\ UNCHANGED <<env_ok, n_models>>

\* The environment check: the device probe (neuron_mt), the
\* NEURON_RT_VISIBLE_CORES marker (neuron_st), torch.cuda.is_available()
\* (nvidia_st).  A failure logs an error and calls sys.exit(1).
EnvCheckFail ==
    /\ pc' = "exit1"
    /\ error' = "SystemExit"
    /\ UNCHANGED <<env_ok, n_models>>

EnvCheck ==
    /\ pc = "start"
    /\ \/ \E r \in 1..MaxR :
            /\ env_ok' = TRUE
            /\ n_models' = IF script = "neuron_mt" THEN r ELSE n_models
            /\ pc' = "resolve_mode"
            /\ error' = error
       \/ EnvCheckFail
    /\ UNCHANGED <<extVars, script, now, mode, batch_size, model_loaded, dataVars,
                   n_threads, thread_batches, submitted, collected,
                   rows_processed, begin, end, workerVars, loopVars, metrics>>

\* mode = os.environ.get("INFERENCE_MODE", "throughput").lower(), with the
\* fallback; batch_size = 1 if mode == "latency" else 8
ResolveMode ==
    /\ pc = "resolve_mode"
    /\ \E m \in Modes :
        /\ mode' = m
        /\ batch_size' = IF m = "latency" THEN LatencyBatchSize
                         ELSE ThroughputBatchSize
    /\ pc' = "load_model"
    /\ UNCHANGED <<extVars, script, error, now, env_ok, model_loaded, dataVars,
                   poolVars, workerVars, loopVars, metrics>>

\* BertTokenizer / BertForPreTraining .from_pretrained; a failure exits 1.
\* Then run_inference is called: main leaves n_threads at its default 2;
\* the call is modelled for every n_threads in 1..MaxT.
LoadModel ==
    /\ pc = "load_model"
    /\ \/ /\ model_loaded' = TRUE
          /\ pc' = "create_data"
          /\ error' = error
          /\ \E t \in 1..MaxT :
                n_threads' = IF script = "neuron_mt" THEN t ELSE n_threads
       \/ /\ model_loaded' = model_loaded
          /\ pc' = "exit1"
          /\ error' = "SystemExit"
          /\ n_threads' = n_threads
    /\ UNCHANGED <<extVars, script, now, env_ok, mode, batch_size, dataVars, n_models,
                   thread_batches, submitted, collected, rows_processed,
                   begin, end, workerVars, loopVars, metrics>>

\* ---- run_inference(): dataset and tracing --------------------------------
\* create_dummy_data: the dataset holds nbatches full batches; an exception
\* is logged and re-raised.  nvidia_st is called with num_samples=100, which
\* never yields an empty dataset.
CreateData ==
    /\ pc = "create_data"
    /\ \/ \E b \in (IF script = "nvidia_st" THEN 1 ELSE 0)..MaxB :
            /\ dataset' = TRUE
            /\ nbatches' = b
            /\ pc' = IF script = "nvidia_st" THEN "loop" ELSE "trace"
            /\ error' = error
       \/ /\ pc' = "raised"
          /\ error' = "DataError"
          /\ UNCHANGED <<dataset, nbatches>>
    /\ UNCHANGED <<extVars, mainVars, now, traced, started, poolVars, workerVars,
                   loopVars, metrics>>

\* variant: the failure is logged and the untraced model is used
TraceFailFallback ==
    /\ pc' = IF script = "neuron_mt" THEN "partition" ELSE "loop"
    /\ error' = error
    /\ stdout' = Append(stdout, "exception")
    /\ UNCHANGED traced

\* neuron_st takes next(iter(dataloader)) as the sample: StopIteration on an
\* empty loader.  Then torch_neuronx.trace: a failure is logged with its
\* traceback by logger.exception and re-raised.
TraceFail ==
    /\ pc' = "raised"
    /\ error' = "TraceError"
    /\ stdout' = Append(stdout, "exception")
    /\ UNCHANGED traced

TraceModel ==
    /\ pc = "trace"
    /\ IF script = "neuron_st" /\ nbatches = 0
       THEN /\ pc' = "raised"
            /\ error' = "StopIteration"
            /\ UNCHANGED <<traced, stdout>>
       ELSE \/ /\ traced' = TRUE
               /\ error' = error
               /\ pc' = IF script = "neuron_mt" THEN "partition" ELSE "loop"
               /\ UNCHANGED stdout
            \/ TraceFail
    /\ UNCHANGED <<distVars, probeVars, env_mode, builderVars, bs_idx, mainVars, now,
                   dataset, nbatches, started, n_threads, n_models,
                   thread_batches, submitted, collected, rows_processed,
                   begin, end, workerVars, loopVars, metrics>>

\* ---- run_inference() of neuron_mt: partition, fan-out, join ---------------
\* variant: a step of 0 is raised to 1, so that fewer batches than threads
\* give fewer partitions than threads
PartitionClampsStep ==
    /\ pc = "partition"
    /\ thread_batches' =
           MergeLast(Chunks(AllBatches(nbatches),
                            IF nbatches \div n_threads = 0 THEN 1
                            ELSE nbatches \div n_threads), n_threads)
    /\ begin' = now
    /\ started' = TRUE
    /\ pc' = "submit"
    /\ error' = error
    /\ UNCHANGED <<extVars, mainVars, now, dataset, nbatches, traced, n_threads,
                   n_models, submitted, collected, rows_processed, end,
                   workerVars, loopVars, metrics>>

\* batches_per_thread = len(all_batches) // n_threads; range() with step 0
\* raises ValueError.  Then begin = time.time().
Partition ==
    /\ pc = "partition"
    /\ IF nbatches \div n_threads = 0
       THEN /\ pc' = "raised"
            /\ error' = "ValueError"
            /\ UNCHANGED <<thread_batches, begin, started>>
       ELSE /\ thread_batches' = ThreadBatches(AllBatches(nbatches), n_threads)
            /\ begin' = now
            /\ started' = TRUE
            /\ pc' = "submit"
            /\ error' = error
    /\ UNCHANGED <<extVars, mainVars, now, dataset, nbatches, traced, n_threads,
                   n_models, submitted, collected, rows_processed, end,
                   workerVars, loopVars, metrics>>

\* pool.submit(task, models_neuron[i % len(models_neuron)], thread_batches[i])
\* for i in range(n_threads); thread_batches[i] out of range is an IndexError
\* raised inside the with block.
Submit ==
    /\ pc = "submit"
    /\ IF submitted = n_threads
       THEN /\ pc' = "collect"
            /\ UNCHANGED <<error, submitted, wpc, wmodel, wbatches>>
       ELSE IF submitted + 1 > Len(thread_batches)
       THEN /\ pc' = "unwind"
            /\ error' = "IndexError"
            /\ UNCHANGED <<submitted, wpc, wmodel, wbatches>>
       ELSE LET w == submitted + 1 IN
            /\ submitted' = w
            /\ wpc' = [wpc EXCEPT ![w] = "ready"]
            /\ wmodel' = [wmodel EXCEPT ![w] = ModelIndex(submitted, n_models)]
            /\ wbatches' = [wbatches EXCEPT ![w] = thread_batches[w]]
            /\ UNCHANGED <<pc, error>>
    /\ UNCHANGED <<extVars, mainVars, now, dataVars, n_threads, n_models,
                   thread_batches, collected, rows_processed, begin, end,
                   wdone, wstart, wrows, latencies, loopVars, metrics>>

\* task(): start = time.time(), then the model call is in flight; a task
\* whose partition is empty returns at once
WorkerBegin(w) ==
    /\ wpc[w] = "ready"
    /\ IF wdone[w] < Len(wbatches[w])
       THEN /\ wpc' = [wpc EXCEPT ![w] = "calling"]
            /\ wstart' = [wstart EXCEPT ![w] = now]
       ELSE /\ wpc' = [wpc EXCEPT ![w] = "done"]
            /\ wstart' = wstart
    /\ UNCHANGED <<extVars, pc, error, mainVars, now, dataVars, poolVars, wmodel,
                   wbatches, wdone, wrows, latencies, loopVars, metrics>>

\* the model call returns: finish = time.time(),
\* latencies.append((finish - start) * 1000), local_rows_processed += rows;
\* after the last batch of the partition the task returns its row count
WorkerReturn(w) ==
    /\ wpc[w] = "calling"
    /\ wpc' = [wpc EXCEPT ![w] = IF wdone[w] + 1 < Len(wbatches[w])
                                 THEN "ready" ELSE "done"]
    /\ latencies' = ListAppend(latencies, (now - wstart[w]) * MsPerSecond)
    /\ wdone' = [wdone EXCEPT ![w] = @ + 1]
    /\ wrows' = [wrows EXCEPT ![w] = @ + batch_size]
    /\ wstart' = [wstart EXCEPT ![w] = 0]
    /\ UNCHANGED <<extVars, pc, error, mainVars, now, dataVars, poolVars, wmodel,
                   wbatches, loopVars, metrics>>

\* the model call raises: the task ends and its future holds the exception
WorkerRaise(w) ==
    /\ wpc[w] = "calling"
    /\ wpc' = [wpc EXCEPT ![w] = "failed"]
    /\ wstart' = [wstart EXCEPT ![w] = 0]
    /\ UNCHANGED <<extVars, pc, error, mainVars, now, dataVars, poolVars, wmodel,
                   wbatches, wdone, wrows, latencies, loopVars, metrics>>

\* variant: a failed task counts as a result and the loop goes on
CollectSwallow(w) ==
    /\ pc = "collect"
    /\ w \in 1..submitted
    /\ w \notin collected
    /\ Finished(w)
    /\ collected' = collected \cup {w}
    /\ rows_processed' = rows_processed + wrows[w]
    /\ UNCHANGED <<extVars, pc, error, mainVars, now, dataVars, n_threads, n_models,
                   thread_batches, submitted, begin, end, workerVars,
                   loopVars, metrics>>

\* variant: the first result ends the wait and the pool is not joined
CollectFirstOnly(w) ==
    /\ pc = "collect"
    /\ w \in 1..submitted
    /\ w \notin collected
    /\ Finished(w)
    /\ collected' = collected \cup {w}
    /\ IF wpc[w] = "failed"
       THEN /\ pc' = "unwind"
            /\ error' = "InferenceError"
            /\ UNCHANGED <<rows_processed, end>>
       ELSE /\ rows_processed' = rows_processed + wrows[w]
            /\ end' = now
            /\ pc' = "report"
            /\ error' = error
    /\ UNCHANGED <<extVars, mainVars, now, dataVars, n_threads, n_models,
                   thread_batches, submitted, begin, workerVars,
                   loopVars, metrics>>

\* for future in as_completed(futures): rows_processed += future.result();
\* result() re-raises the task's exception, which leaves the loop
Collect(w) ==
    /\ pc = "collect"
    /\ w \in 1..submitted
    /\ w \notin collected
    /\ Finished(w)
    /\ collected' = collected \cup {w}
    /\ IF wpc[w] = "failed"
       THEN /\ pc' = "unwind"
            /\ error' = "InferenceError"
            /\ UNCHANGED rows_processed
       ELSE /\ rows_processed' = rows_processed + wrows[w]
            /\ UNCHANGED <<pc, error>>
    /\ UNCHANGED <<extVars, mainVars, now, dataVars, n_threads, n_models,
                   thread_batches, submitted, begin, end, workerVars,
                   loopVars, metrics>>

\* leaving the with block: ThreadPoolExecutor.__exit__ is shutdown(wait=True);
\* after a normal exit end = time.time(), after an exception it propagates
Join ==
    /\ \A w \in 1..submitted : Finished(w)
    /\ \/ /\ pc = "collect"
          /\ collected = 1..submitted
          /\ end' = now
          /\ pc' = "report"
       \/ /\ pc = "unwind"
          /\ end' = end
          /\ pc' = "raised"
    /\ UNCHANGED <<extVars, error, mainVars, now, dataVars, n_threads, n_models,
                   thread_batches, submitted, collected, rows_processed,
                   begin, workerVars, loopVars, metrics>>

\* ---- run_inference() of neuron_mt: metrics --------------------------------
\* variant: a percentile that returns nan for an empty list
PercentileNaN(lat) == "none"

\* np.percentile(latencies, boundary) raises IndexError on an empty list
PercentileError(lat) == IF Len(lat) = 0 THEN "IndexError" ELSE "none"

\* throughput = inferences / duration: float division by zero raises
ThroughputError(duration) == IF duration = 0 THEN "ZeroDivisionError" ELSE "none"

\* the exception of the metrics computation, in the order of the statements
AggregateError(lat, duration) ==
    IF PercentileError(lat) # "none" THEN PercentileError(lat)
    ELSE ThroughputError(duration)

\* the samples in ascending order: np.percentile reads order statistics
RECURSIVE InsertSorted(_, _)
InsertSorted(s, x) ==
    IF s = <<>> THEN <<x>>
    ELSE IF x <= Head(s) THEN <<x>> \o s
    ELSE <<Head(s)>> \o InsertSorted(Tail(s), x)

RECURSIVE SortPrefix(_, _)
SortPrefix(lat, n) ==
    IF n = 0 THEN <<>> ELSE InsertSorted(SortPrefix(lat, n - 1), lat[n])

\* variant: the samples are read in the order of their arrival
SortedAsAppended(lat) == lat

Sorted(lat) == SortPrefix(lat, Len(lat))

\* variant: the lower neighbouring sample, without interpolation
PercentileLower(lat, q) ==
    LET s == Sorted(lat)
        h == (Len(lat) - 1) * q
    IN  s[h \div PctScale + 1] * PctScale

\* np.percentile(latencies, q) for a non-empty list, in hundredths of a
\* millisecond.  The default method is linear: the virtual index is
\* (n - 1) * q / 100, and the value lies between the two order statistics
\* around it, in proportion to the fractional part of the index.
Percentile(lat, q) ==
    LET s == Sorted(lat)
        h == (Len(lat) - 1) * q
        lo == h \div PctScale
        frac == h % PctScale
        hi == Min(lo + 1, Len(lat) - 1)
    IN  s[lo + 1] * (PctScale - frac) + s[hi + 1] * frac

\* variant: throughput over the summed per-batch times
MtMetricsSummed(lat, rows, duration) ==
    [script |-> "neuron_mt", mode |-> mode, batches |-> Len(lat),
     samples |-> rows, tp_num |-> rows,
     tp_den |-> SumTo(lat, Len(lat)) \div MsPerSecond,
     avg_inf |-> FALSE,
     avg_num |-> SumTo(lat, Len(lat)), avg_den |-> Len(lat),
     p50 |-> Percentile(lat, 50), p95 |-> Percentile(lat, 95),
     p99 |-> Percentile(lat, 99)]

\* the [BERT_INFERENCE_NEURON_METRICS] lines of one report.  Throughput is the
\* fraction tp_num / tp_den; avg_inf says avg_time_per_batch is float('inf').
\* avg_time_per_batch = np.mean(latencies) is the fraction avg_num / avg_den;
\* p50, p95, p99 are the latency_p{boundary} values.
MtMetrics(lat, rows, duration) ==
    [script |-> "neuron_mt", mode |-> mode, batches |-> Len(lat),
     samples |-> rows, tp_num |-> rows, tp_den |-> duration,
     avg_inf |-> FALSE,
     avg_num |-> SumTo(lat, Len(lat)), avg_den |-> Len(lat),
     p50 |-> Percentile(lat, 50), p95 |-> Percentile(lat, 95),
     p99 |-> Percentile(lat, 99)]

MtReport ==
    /\ pc = "report"
    /\ script = "neuron_mt"
    /\ IF AggregateError(latencies, end - begin) # "none"
       THEN /\ pc' = "raised"
            /\ error' = AggregateError(latencies, end - begin)
            /\ metrics' = metrics
       ELSE /\ metrics' = Append(metrics,
                              MtMetrics(latencies, rows_processed, end - begin))
            /\ pc' = "done"
            /\ error' = error
    /\ UNCHANGED <<extVars, mainVars, now, dataVars, poolVars, workerVars, loopVars>>

\* ---- run_inference() of neuron_st and nvidia_st ---------------------------
\* total_time = 0.0, then for batch in dataloader:
\* start_time = time.time() and the model call
StBegin ==
    /\ pc = "loop"
    /\ started' = TRUE
    /\ IF st_idx < nbatches
       THEN /\ st_start' = now
            /\ pc' = "st_calling"
       ELSE /\ st_start' = st_start
            /\ pc' = "report"
    /\ UNCHANGED <<extVars, error, mainVars, now, dataset, nbatches, traced, poolVars,
                   workerVars, st_idx, total_time, metrics>>

\* the call returns: total_time += time.time() - start_time
StReturn ==
    /\ pc = "st_calling"
    /\ total_time' = total_time + (now - st_start)
    /\ st_idx' = st_idx + 1
    /\ st_start' = 0
    /\ pc' = "loop"
    /\ UNCHANGED <<extVars, error, mainVars, now, dataVars, poolVars, workerVars,
                   metrics>>

\* the call raises: logged and re-raised
StRaise ==
    /\ pc = "st_calling"
    /\ pc' = "raised"
    /\ error' = "InferenceError"
    /\ UNCHANGED <<extVars, mainVars, now, dataVars, poolVars, workerVars, loopVars,
                   metrics>>

\* variant: no check of total_time
ZeroTimeErrorNone(s, t) == "none"

\* neuron_st: if total_time == 0.0: raise RuntimeError
\* nvidia_st: if total_time == 0.0: avg_time_per_batch = inf, throughput = 0.0
ZeroTimeError(s, t) ==
    IF s = "neuron_st" /\ t = 0 THEN "RuntimeError" ELSE "none"

StMetrics(s, t) ==
    [script |-> s, mode |-> mode, batches |-> nbatches,
     samples |-> nbatches * batch_size,
     tp_num |-> IF t = 0 THEN 0 ELSE nbatches * batch_size,
     tp_den |-> IF t = 0 THEN 1 ELSE t,
     avg_inf |-> (t = 0)]

StReport ==
    /\ pc = "report"
    /\ script # "neuron_mt"
    /\ IF ZeroTimeError(script, total_time) # "none"
       THEN /\ pc' = "raised"
            /\ error' = ZeroTimeError(script, total_time)
            /\ metrics' = metrics
       ELSE /\ metrics' = Append(metrics, StMetrics(script, total_time))
            /\ pc' = "done"
            /\ error' = error
    /\ UNCHANGED <<extVars, mainVars, now, dataVars, poolVars, workerVars, loopVars>>

\* ---- specifications ------------------------------------------------------
Next ==
    \/ Tick
    \/ EnvCheck
    \/ ResolveMode
    \/ LoadModel
    \/ CreateData
    \/ TraceModel
    \/ Partition
    \/ Submit
    \/ \E w \in Workers : WorkerBegin(w)
    \/ \E w \in Workers : WorkerReturn(w)
    \/ \E w \in Workers : WorkerRaise(w)
    \/ \E w \in Workers : Collect(w)
    \/ Join
    \/ MtReport
    \/ StBegin
    \/ StReturn
    \/ StRaise
    \/ StReport

Spec == Init /\ [][Next]_vars

\* The metrics computation of neuron_mt (lines 275-311) as a function of the
\* latency list, the row count and the clock readings: every list of up to
\* MaxAggLen samples, the empty one included.
AggLists ==
    UNION {[1..n -> {t * MsPerSecond : t \in 0..MaxAggTick}] : n \in 0..MaxAggLen}

InitAgg ==
    /\ script = "neuron_mt"
    /\ pc = "report"
    /\ error = "none"
    /\ env_ok = TRUE
    /\ \E m \in Modes :
        /\ mode = m
        /\ batch_size = IF m = "latency" THEN LatencyBatchSize
                        ELSE ThroughputBatchSize
    /\ model_loaded = TRUE
    /\ dataset = TRUE
    /\ traced = TRUE
    /\ started = TRUE
    /\ n_threads = DefaultThreads
    /\ n_models = 1
    /\ thread_batches = <<>>
    /\ submitted = 0
    /\ wpc = [w \in Workers |-> "none"]
    /\ wmodel = NoWorkers
    /\ wbatches = [w \in Workers |-> <<>>]
    /\ wdone = NoWorkers
    /\ wstart = NoWorkers
    /\ wrows = NoWorkers
    /\ collected = {}
    /\ \E l \in AggLists :
        /\ latencies = l
        /\ nbatches = Len(l)
        /\ rows_processed = Len(l) * batch_size
    /\ begin = 0
    /\ end \in 0..MaxTime
    /\ now = end
    /\ st_idx = 0
    /\ st_start = 0
    /\ total_time = 0
    /\ metrics = <<>>
    /\ ExtIdle

NextAgg == MtReport

SpecAgg == InitAgg /\ [][NextAgg]_vars

\* ---- get_neuron_monitor_stats() of neuron_mt -------------------------------
\* The first line neuron-monitor may write: nothing at all (end of file), a
\* bare newline, text that is not JSON,
\* JSON that is not an object, or a JSON object with or without
\* neuron_hardware_info, its neuron_device_type (a string or another value)
\* and its neuroncore_per_device_count.
ProbeOutputs ==
    {l \in [kind : {"empty", "newline", "garbage", "json_array", "json"},
            hw : BOOLEAN,
            dtype : {"absent", "string", "other"},
            has_count : BOOLEAN,
            count : (0 - MaxR)..MaxR] :
        /\ (l.kind # "json" => ~l.hw)
        /\ (~l.hw => (l.dtype = "absent" /\ ~l.has_count))
        /\ (~l.has_count => l.count = 0)}

\* hardware_info.get('neuroncore_per_device_count', 0) on
\* stats.get('neuron_hardware_info', {})
CountOf(l) == IF l.hw /\ l.has_count THEN l.count ELSE 0

\* The exception raised inside the try block once the line was read, "none"
\* when the function reaches its return statement.
ProbeError(l) ==
    IF l.kind = "empty" THEN "RuntimeError"
    ELSE IF l.kind \in {"newline", "garbage"} THEN "JSONDecodeError"
    ELSE IF l.kind = "json_array" THEN "AttributeError"
    ELSE IF l.dtype = "other" THEN "AttributeError"
    ELSE IF CountOf(l) <= 0 THEN "RuntimeError"
    ELSE "none"

ProbeHandlersPropagate(e) == e

\* The except clauses: FileNotFoundError, json.JSONDecodeError and every other
\* Exception (the RuntimeErrors raised in the try block included) leave the
\* function as a RuntimeError.
ProbeHandlers(e) ==
    IF e = "FileNotFoundError" THEN "RuntimeError"
    ELSE IF e = "JSONDecodeError" THEN "RuntimeError"
    ELSE "RuntimeError"

\* subprocess.Popen(['neuron-monitor'], ...): the executable is started, or it
\* is not on the PATH.
ProbeStart ==
    /\ script = "neuron_mt"
    /\ pc = "start"
    /\ \/ /\ proc' = "running"
          /\ pc' = "probe_read"
          /\ UNCHANGED error
       \/ /\ pc' = "probe_raised"
          /\ error' = ProbeHandlers("FileNotFoundError")
          /\ UNCHANGED proc
    /\ UNCHANGED <<now, mainVars, dataVars, poolVars, workerVars,
                   loopVars, metrics, lines_read, output, env_mode, stdout,
                   builderVars, bs_idx, distVars>>

ProbeReadEmptyRaises ==
    /\ pc = "probe_read"
    /\ \E l \in ProbeOutputs :
        /\ output' = l
        /\ IF l.kind = "empty"
           THEN pc' = "probe_raised" /\ error' = "RuntimeError"
           ELSE pc' = "probe_terminate" /\ UNCHANGED error
    /\ lines_read' = lines_read + 1
    /\ UNCHANGED <<now, mainVars, dataVars, poolVars, workerVars,
                   loopVars, metrics, proc, env_mode, stdout, builderVars,
                   bs_idx, distVars>>

\* output = process.stdout.readline(): one line, or '' at end of file.
ProbeRead ==
    /\ pc = "probe_read"
    /\ \E l \in ProbeOutputs : output' = l
    /\ lines_read' = lines_read + 1
    /\ pc' = "probe_terminate"
    /\ UNCHANGED <<error, now, mainVars, dataVars, poolVars, workerVars,
                   loopVars, metrics, proc, env_mode, stdout, builderVars,
                   bs_idx, distVars>>

\* process.terminate()
ProbeTerminate ==
    /\ pc = "probe_terminate"
    /\ proc' = "terminated"
    /\ pc' = "probe_wait"
    /\ UNCHANGED <<error, now, mainVars, dataVars, poolVars, workerVars,
                   loopVars, metrics, lines_read, output, env_mode, stdout,
                   builderVars, bs_idx, distVars>>

\* process.wait()
ProbeWait ==
    /\ pc = "probe_wait"
    /\ proc' = "waited"
    /\ pc' = "probe_parse"
    /\ UNCHANGED <<error, now, mainVars, dataVars, poolVars, workerVars,
                   loopVars, metrics, lines_read, output, env_mode, stdout,
                   builderVars, bs_idx, distVars>>

\* The checks on the line: it is not empty, it parses, the count is positive.
ProbeParse ==
    /\ pc = "probe_parse"
    /\ IF ProbeError(output) = "none"
       THEN /\ pc' = "probe_returned"
            /\ n_models' = CountOf(output)
            /\ UNCHANGED error
       ELSE /\ pc' = "probe_raised"
            /\ error' = ProbeHandlers(ProbeError(output))
            /\ UNCHANGED n_models
    /\ UNCHANGED <<script, now, env_ok, mode, batch_size, model_loaded,
                   dataVars, n_threads, thread_batches, submitted, collected,
                   rows_processed, begin, end, workerVars, loopVars, metrics,
                   probeVars, env_mode, stdout, builderVars, bs_idx, distVars>>

\* main(): the try around the probe; except RuntimeError prints the error and
\* calls sys.exit(1), any other exception would leave main uncaught.
MainProbe ==
    /\ pc \in {"probe_returned", "probe_raised"}
    /\ IF pc = "probe_returned"
       THEN /\ env_ok' = TRUE
            /\ pc' = "resolve_mode"
            /\ UNCHANGED <<error, stdout>>
       ELSE IF error = "RuntimeError"
       THEN /\ pc' = "exit1"
            /\ error' = "SystemExit"
            /\ stdout' = Append(stdout, "error")
            /\ UNCHANGED env_ok
       ELSE /\ pc' = "raised"
            /\ UNCHANGED <<error, stdout, env_ok>>
    /\ UNCHANGED <<script, now, mode, batch_size, model_loaded, dataVars,
                   poolVars, workerVars, loopVars, metrics, probeVars,
                   env_mode, builderVars, bs_idx, distVars>>

InitProbe ==
    /\ script = "neuron_mt"
    /\ pc = "start"
    /\ error = "none"
    /\ SetupIdle
    /\ FanOutIdle
    /\ LoopIdle
    /\ ExtIdle

NextProbe ==
    \/ ProbeStart
    \/ ProbeRead
    \/ ProbeTerminate
    \/ ProbeWait
    \/ ProbeParse
    \/ MainProbe

SpecProbe == InitProbe /\ [][NextProbe]_vars

\* ---- main(): INFERENCE_MODE --------------------------------------------------
\* The entry points that read INFERENCE_MODE; bert_st is
\* e2e2/test/images/bert-inference/infer.py.
ModeScripts == Scripts \cup {"bert_st"}

\* The values INFERENCE_MODE is given in the environment.
EnvModes == {Unset, "throughput", "latency", "THROUGHPUT", "LATENCY",
             "Throughput", "Latency", "bogus", "BOGUS", ""}

\* str.lower() on these values
Lower(s) ==
    IF s \in {"THROUGHPUT", "Throughput"} THEN "throughput"
    ELSE IF s \in {"LATENCY", "Latency"} THEN "latency"
    ELSE IF s = "BOGUS" THEN "bogus"
    ELSE s

\* os.environ.get("INFERENCE_MODE", "throughput")
GetEnvMode(e) == IF e = Unset THEN "throughput" ELSE e

\* mode = os.environ.get("INFERENCE_MODE", "throughput").lower()
GetMode ==
    /\ script \in ModeScripts
    /\ pc = "resolve_mode"
    /\ mode' = Lower(GetEnvMode(env_mode))
    /\ pc' = IF script = "bert_st" THEN "batch_size" ELSE "validate_mode"
    /\ UNCHANGED <<script, error, now, env_ok, batch_size, model_loaded,
                   dataVars, poolVars, workerVars, loopVars, metrics, extVars>>

\* if mode not in ["throughput", "latency"]: warn and fall back; this test is
\* in the two neuron scripts and in nvidia-inference, bert-inference has none.
ValidateMode ==
    /\ pc = "validate_mode"
    /\ IF mode \notin Modes
       THEN /\ stdout' = Append(stdout, "warning")
            /\ mode' = "throughput"
       ELSE UNCHANGED <<stdout, mode>>
    /\ pc' = "batch_size"
    /\ UNCHANGED <<script, error, now, env_ok, batch_size, model_loaded,
                   dataVars, poolVars, workerVars, loopVars, metrics,
                   probeVars, env_mode, builderVars, bs_idx, distVars>>

\* batch_size = 1 if mode == "latency" else 8, then the mode goes on to
\* run_inference, which writes it into its report.
SetBatchSize ==
    /\ pc = "batch_size"
    /\ batch_size' = IF mode = "latency" THEN LatencyBatchSize
                     ELSE ThroughputBatchSize
    /\ pc' = IF script = "bert_st" THEN "create_data" ELSE "load_model"
    /\ UNCHANGED <<script, error, now, env_ok, mode, model_loaded,
                   dataVars, poolVars, workerVars, loopVars, metrics, extVars>>

InitMode ==
    /\ script \in ModeScripts
    /\ pc = "resolve_mode"
    /\ error = "none"
    /\ env_ok = TRUE
    /\ mode = "throughput"
    /\ batch_size = ThroughputBatchSize
    /\ model_loaded = (script = "bert_st")
    /\ dataset = FALSE
    /\ nbatches = 0
    /\ traced = FALSE
    /\ started = FALSE
    /\ FanOutIdle
    /\ LoopIdle
    /\ ProbeIdle
    /\ BuilderIdle
    /\ env_mode \in EnvModes
    /\ stdout = <<>>
    /\ bs_idx = 0
    /\ DistIdle

NextMode ==
    \/ GetMode
    \/ ValidateMode
    \/ SetBatchSize

SpecMode == InitMode /\ [][NextMode]_vars

\* ---- create_dummy_data() of the inference scripts --------------------------
\* The builder is seeded in the two neuron scripts; nvidia-inference has no
\* seed parameter and never calls random.seed.
SeededScripts == {"neuron_mt", "neuron_st"}

\* len(sample_sentences); a sentence is named by its index 0..9 in the pool.
PoolSize == 10

\* the default of the seed parameter
DefaultSeed == 42

DataSeeds == 0..MaxSeed \cup {DefaultSeed}
DataBatchSizes == LatencyBatchSize..ThroughputBatchSize

\* Module random keeps one process-wide generator: a state that every draw
\* advances and that random.seed() sets from the seed alone.  A 16-bit linear
\* congruential generator stands for it.
RngMod == 65536
RngMul == 25173
RngInc == 13849

\* generator states left behind by whatever used module random before a call
PriorRngs == 0..MaxPrior

SeedRngKept(g, s) == g

\* random.seed(seed)
SeedRng(g, s) == s % RngMod

\* the state after one more draw
Advance(g) == (RngMul * g + RngInc) % RngMod

\* random.randint(0, len(sample_sentences) - 1), read off the advanced state
RandIndex(g) == (g * PoolSize) \div RngMod

\* random.random() < 0.5, read off the advanced state
RandBelowHalf(g) == g * 2 < RngMod

AdjustSamplesUp(n, bs) == IF n % bs # 0 THEN ((n \div bs) + 1) * bs ELSE n

\* if num_samples % batch_size != 0: num_samples = (num_samples // batch_size) * batch_size
AdjustSamples(n, bs) == IF n % bs # 0 THEN (n \div bs) * bs ELSE n

SuccessorSame(a) == a

\* (idx_a + 1) % len(sample_sentences)
Successor(a) == (a + 1) % PoolSize

\* One pass of the loop body: idx_a, the coin, then idx_b by the branch taken.
\* The result is the record and the generator state after the pass.
DrawRecord(g) ==
    LET g1 == Advance(g)
        a == RandIndex(g1)
        g2 == Advance(g1)
        g3 == Advance(g2)
    IN  IF RandBelowHalf(g2)
        THEN [rec |-> <<a, Successor(a), 1>>, rng |-> g2]
        ELSE [rec |-> <<a, RandIndex(g3), 0>>, rng |-> g3]

\* The call is entered: random.seed(seed) where the builder has it, and the
\* three lists start empty.
BuilderBegin ==
    /\ pc = "create_data"
    /\ call' = call + 1
    /\ rng' = IF script \in SeededScripts THEN SeedRng(rng, seed) ELSE rng
    /\ records' = <<>>
    /\ pc' = "build"
    /\ UNCHANGED <<script, error, now, env_ok, mode, batch_size, model_loaded,
                   dataVars, poolVars, workerVars, loopVars, metrics,
                   probeVars, env_mode, stdout, seed, num_samples,
                   first_records, bs_idx, distVars>>

\* for _ in range(num_samples): one more record
BuilderRecord ==
    /\ pc = "build"
    /\ Len(records) < AdjustSamples(num_samples, batch_size)
    /\ records' = Append(records, DrawRecord(rng).rec)
    /\ rng' = DrawRecord(rng).rng
    /\ UNCHANGED <<script, pc, error, now, env_ok, mode, batch_size,
                   model_loaded, dataVars, poolVars, workerVars, loopVars,
                   metrics, probeVars, env_mode, stdout, seed, num_samples,
                   call, first_records, bs_idx, distVars>>

\* The loop is over: the lists are tokenized and returned as the dataset, and
\* the DataLoader cuts it into batches of batch_size.
BuilderReturn ==
    /\ pc = "build"
    /\ Len(records) = AdjustSamples(num_samples, batch_size)
    /\ dataset' = TRUE
    /\ nbatches' = CeilDiv(Len(records), batch_size)
    /\ IF call = 1
       THEN first_records' = records /\ pc' = "called_once"
       ELSE UNCHANGED first_records /\ pc' = "called_twice"
    /\ UNCHANGED <<script, error, now, env_ok, mode, batch_size, model_loaded,
                   traced, started, poolVars, workerVars, loopVars, metrics,
                   probeVars, env_mode, stdout, seed, num_samples, rng,
                   records, call, bs_idx, distVars>>

\* The builder is called again with the same arguments, after module random
\* was left alone or used by something else.
BuilderAgain ==
    /\ pc = "called_once"
    /\ rng' \in PriorRngs \cup {rng}
    /\ pc' = "create_data"
    /\ UNCHANGED <<script, error, now, env_ok, mode, batch_size, model_loaded,
                   dataVars, poolVars, workerVars, loopVars, metrics,
                   probeVars, env_mode, stdout, seed, num_samples, records,
                   call, first_records, bs_idx, distVars>>

InitData ==
    /\ script \in Scripts
    /\ pc = "create_data"
    /\ error = "none"
    /\ env_ok = TRUE
    /\ mode = "throughput"
    /\ batch_size \in DataBatchSizes
    /\ model_loaded = TRUE
    /\ dataset = FALSE
    /\ nbatches = 0
    /\ traced = FALSE
    /\ started = FALSE
    /\ FanOutIdle
    /\ LoopIdle
    /\ ProbeIdle
    /\ env_mode = Unset
    /\ stdout = <<>>
    /\ seed \in IF script \in SeededScripts THEN DataSeeds ELSE {0}
    /\ num_samples \in 0..MaxSamples
    /\ rng \in PriorRngs
    /\ records = <<>>
    /\ call = 0
    /\ first_records = <<>>
    /\ bs_idx = 0
    /\ DistIdle

NextData ==
    \/ BuilderBegin
    \/ BuilderRecord
    \/ BuilderReturn
    \/ BuilderAgain

SpecData == InitData /\ [][NextData]_vars

\* ---- the batch-size search of the optimize scripts -------------------------
\* train_opt is hack/optimize/neuron/train_bert_neuron.py, infer_opt is
\* hack/optimize/nvidia/infer_bert_nvidia.py.
SearchScripts == {"train_opt", "infer_opt"}

\* batch_sizes as main passes it
BatchSizesOf(s) ==
    IF s = "train_opt" THEN <<128, 64, 32, 16, 8>>
    ELSE <<1024, 512, 256, 128, 64, 32, 16, 8>>

\* len(dataset): create_dummy_data(tokenizer) with its default num_samples
SearchSamples == 1000

\* What a step of a pass may raise: the exception class and its message.
Failures == [type : {"RuntimeError", "ValueError"},
             msg : {"CUDA out of memory", "OUT OF MEMORY", "device lost"}]

\* 'out of memory' in str(e).lower(), on these messages
MentionsOOM(m) == m \in {"CUDA out of memory", "OUT OF MEMORY"}

\* except RuntimeError as e: if 'out of memory' in str(e).lower(): ... continue
CaughtAsOOM(e) == e.type = "RuntimeError" /\ MentionsOOM(e.msg)

\* variant: a used-up list of candidates is an error
SearchIterateExhaustedRaises ==
    /\ script \in SearchScripts
    /\ pc = "search_next"
    /\ IF bs_idx > Len(BatchSizesOf(script))
       THEN /\ pc' = "raised"
            /\ error' = "RuntimeError"
            /\ UNCHANGED <<batch_size, nbatches, st_idx, begin, started>>
       ELSE /\ batch_size' = BatchSizesOf(script)[bs_idx]
            /\ nbatches' = CeilDiv(SearchSamples, BatchSizesOf(script)[bs_idx])
            /\ st_idx' = 0
            /\ begin' = now
            /\ started' = TRUE
            /\ pc' = "search_loop"
            /\ UNCHANGED error
    /\ UNCHANGED <<script, now, env_ok, mode, model_loaded, dataset,
                   traced, n_threads, n_models, thread_batches, submitted,
                   collected, rows_processed, end, workerVars, st_start,
                   total_time, metrics, extVars>>

\* for batch_size in batch_sizes: the next candidate starts its pass (data
\* loader, optimizer, start_time), or the list is used up.
SearchIterate ==
    /\ script \in SearchScripts
    /\ pc = "search_next"
    /\ IF bs_idx > Len(BatchSizesOf(script))
       THEN /\ pc' = "search_report"
            /\ UNCHANGED <<batch_size, nbatches, st_idx, begin, started>>
       ELSE /\ batch_size' = BatchSizesOf(script)[bs_idx]
            /\ nbatches' = CeilDiv(SearchSamples, BatchSizesOf(script)[bs_idx])
            /\ st_idx' = 0
            /\ begin' = now
            /\ started' = TRUE
            /\ pc' = "search_loop"
    /\ UNCHANGED <<script, error, now, env_ok, mode, model_loaded, dataset,
                   traced, n_threads, n_models, thread_batches, submitted,
                   collected, rows_processed, end, workerVars, st_start,
                   total_time, metrics, extVars>>

\* one batch of the pass goes through the model
SearchBatch ==
    /\ pc = "search_loop"
    /\ st_idx < nbatches
    /\ st_idx' = st_idx + 1
    /\ UNCHANGED <<script, pc, error, now, env_ok, mode, batch_size,
                   model_loaded, dataVars, poolVars, workerVars, st_start,
                   total_time, metrics, extVars>>

\* variant: a failure that is not out-of-memory is noted and the next
\* candidate is tried all the same
SearchBatchFailsSwallows ==
    /\ pc = "search_loop"
    /\ st_idx < nbatches
    /\ \E e \in Failures :
        IF CaughtAsOOM(e)
        THEN /\ stdout' = Append(stdout, [line |-> "oom",
                                          batch_size |-> batch_size])
             /\ bs_idx' = bs_idx + 1
             /\ pc' = "search_next"
             /\ UNCHANGED error
        ELSE /\ pc' = "search_next"
             /\ bs_idx' = bs_idx + 1
             /\ error' = e.type
             /\ UNCHANGED stdout
    /\ UNCHANGED <<script, now, env_ok, mode, batch_size, model_loaded,
                   dataVars, poolVars, workerVars, loopVars, metrics,
                   distVars, probeVars, env_mode, builderVars>>

\* variant: after an out-of-memory failure the same candidate is tried again
SearchBatchFailsRetrySame ==
    /\ pc = "search_loop"
    /\ st_idx < nbatches
    /\ \E e \in Failures :
        IF CaughtAsOOM(e)
        THEN /\ stdout' = Append(stdout, [line |-> "oom",
                                          batch_size |-> batch_size])
             /\ pc' = "search_next"
             /\ UNCHANGED <<error, bs_idx>>
        ELSE /\ pc' = "raised"
             /\ error' = e.type
             /\ UNCHANGED <<stdout, bs_idx>>
    /\ UNCHANGED <<script, now, env_ok, mode, batch_size, model_loaded,
                   dataVars, poolVars, workerVars, loopVars, metrics,
                   distVars, probeVars, env_mode, builderVars>>

\* A batch of the pass raises.  An out-of-memory RuntimeError is caught: the
\* message is printed and the loop continues with the next candidate.  Any
\* other exception leaves the function.
SearchBatchFails ==
    /\ pc = "search_loop"
    /\ st_idx < nbatches
    /\ \E e \in Failures :
        IF CaughtAsOOM(e)
        THEN /\ stdout' = Append(stdout, [line |-> "oom",
                                          batch_size |-> batch_size])
             /\ bs_idx' = bs_idx + 1
             /\ pc' = "search_next"
             /\ UNCHANGED error
        ELSE /\ pc' = "raised"
             /\ error' = e.type
             /\ UNCHANGED <<stdout, bs_idx>>
    /\ UNCHANGED <<script, now, env_ok, mode, batch_size, model_loaded,
                   dataVars, poolVars, workerVars, loopVars, metrics,
                   distVars, probeVars, env_mode, builderVars>>

\* variant: no break, the loop goes on to the next candidate after a result
SearchPassDoneNoBreak ==
    /\ pc = "search_loop"
    /\ st_idx = nbatches
    /\ end' = now
    /\ IF script = "train_opt" /\ now - begin = 0
       THEN /\ pc' = "raised"
            /\ error' = "ZeroDivisionError"
            /\ UNCHANGED <<stdout, metrics, bs_idx>>
       ELSE /\ stdout' = Append(stdout, [line |-> "result",
                                         batch_size |-> batch_size])
            /\ metrics' = IF script = "train_opt"
                          THEN Append(metrics,
                                      [script |-> script,
                                       batch_size |-> batch_size,
                                       tp_num |-> SearchSamples,
                                       tp_den |-> now - begin])
                          ELSE metrics
            /\ bs_idx' = bs_idx + 1
            /\ pc' = "search_next"
            /\ UNCHANGED error
    /\ UNCHANGED <<script, now, mainVars, dataVars, n_threads, n_models,
                   thread_batches, submitted, collected, rows_processed,
                   begin, workerVars, loopVars, probeVars, env_mode,
                   builderVars, distVars>>

\* The pass is complete: end_time is read and the result printed, then break.
\* train_opt divides len(dataset) by the training time and records the
\* result; a zero training time raises ZeroDivisionError, which the except
\* clause does not catch.
SearchPassDone ==
    /\ pc = "search_loop"
    /\ st_idx = nbatches
    /\ end' = now
    /\ IF script = "train_opt" /\ now - begin = 0
       THEN /\ pc' = "raised"
            /\ error' = "ZeroDivisionError"
            /\ UNCHANGED <<stdout, metrics>>
       ELSE /\ stdout' = Append(stdout, [line |-> "result",
                                         batch_size |-> batch_size])
            /\ metrics' = IF script = "train_opt"
                          THEN Append(metrics,
                                      [script |-> script,
                                       batch_size |-> batch_size,
                                       tp_num |-> SearchSamples,
                                       tp_den |-> now - begin])
                          ELSE metrics
            /\ pc' = "search_report"
            /\ UNCHANGED error
    /\ UNCHANGED <<script, now, mainVars, dataVars, n_threads, n_models,
                   thread_batches, submitted, collected, rows_processed,
                   begin, workerVars, loopVars, probeVars, env_mode,
                   builderVars, bs_idx, distVars>>

\* After the loop: train_opt prints "Optimal Batch Size Found:" and one line
\* per recorded result; the function returns and the process ends.
SearchReport ==
    /\ pc = "search_report"
    /\ stdout' = IF script = "train_opt"
                 THEN Append(stdout, [line |-> "optimal",
                                      batch_size |-> Len(metrics)])
                 ELSE stdout
    /\ pc' = "done"
    /\ UNCHANGED <<script, error, now, mainVars, dataVars, poolVars,
                   workerVars, loopVars, metrics, probeVars, env_mode,
                   builderVars, bs_idx, distVars>>

\* The workflows at the head of their batch loops: the single loop of
\* neuron_st over a traced model, and the two searches before their first
\* candidate.
InitRetry ==
    /\ script \in {"neuron_st"} \cup SearchScripts
    /\ error = "none"
    /\ env_ok = TRUE
    /\ model_loaded = TRUE
    /\ dataset = TRUE
    /\ started = FALSE
    /\ FanOutIdle
    /\ LoopIdle
    /\ ProbeIdle
    /\ BuilderIdle
    /\ env_mode = Unset
    /\ stdout = <<>>
    /\ IF script = "neuron_st"
       THEN /\ pc = "loop"
            /\ mode \in Modes
            /\ batch_size = IF mode = "latency" THEN LatencyBatchSize
                            ELSE ThroughputBatchSize
            /\ nbatches \in 1..MaxB
            /\ traced = TRUE
            /\ bs_idx = 0
       ELSE /\ pc = "search_next"
            /\ mode = "throughput"
            /\ batch_size = ThroughputBatchSize
            /\ nbatches = 0
            /\ traced = FALSE
            /\ bs_idx = 1
    /\ DistIdle

NextRetry ==
    \/ Tick
    \/ StBegin
    \/ StReturn
    \/ StRaise
    \/ StReport
    \/ SearchIterate
    \/ SearchBatch
    \/ SearchBatchFails
    \/ SearchPassDone
    \/ SearchReport

SpecRetry == InitRetry /\ [][NextRetry]_vars

\* ---- the percentiles of neuron_mt alone -----------------------------------
\* run_inference() from "# Compute metrics" on, for latency lists over a few
\* distinct sample values (in ms), in every order of arrival.
PctSamples == {10, 20, 30, 40, 50}

PctLists == UNION {[1..n -> PctSamples] : n \in 1..MaxPctLen}

InitPct ==
    /\ script = "neuron_mt"
    /\ pc = "report"
    /\ error = "none"
    /\ env_ok = TRUE
    /\ \E m \in Modes :
        /\ mode = m
        /\ batch_size = IF m = "latency" THEN LatencyBatchSize
                        ELSE ThroughputBatchSize
    /\ model_loaded = TRUE
    /\ dataset = TRUE
    /\ traced = TRUE
    /\ started = TRUE
    /\ n_threads = DefaultThreads
    /\ n_models = 1
    /\ thread_batches = <<>>
    /\ submitted = 0
    /\ wpc = [w \in Workers |-> "none"]
    /\ wmodel = NoWorkers
    /\ wbatches = [w \in Workers |-> <<>>]
    /\ wdone = NoWorkers
    /\ wstart = NoWorkers
    /\ wrows = NoWorkers
    /\ collected = {}
    /\ \E l \in PctLists :
        /\ latencies = l
        /\ nbatches = Len(l)
        /\ rows_processed = Len(l) * batch_size
    /\ begin = 0
    /\ end \in 0..MaxTime
    /\ now = end
    /\ st_idx = 0
    /\ st_start = 0
    /\ total_time = 0
    /\ metrics = <<>>
    /\ ExtIdle

NextPct == MtReport

SpecPct == InitPct /\ [][NextPct]_vars

\* ---- the all-reduce test ---------------------------------------------------
\* test/images/neuron/tests/testNeuronSingleAllReduce.py: world_size
\* processes run _mp_fn(), one per rank.  xm.all_reduce is a collective of the
\* XLA runtime: a round returns on a rank once every rank has contributed its
\* tensor to that round, with the element-wise sum of the contributions.
ReduceIterations == 5

\* torch.ones((2, 3)): the elements, row by row
TensorShape == 1..(2 * 3)
Ones == [e \in TensorShape |-> 1]

ActiveRanks == 0..(world_size - 1)

\* t * k
Scale(t, k) == [e \in TensorShape |-> t[e] * k]

\* xm.REDUCE_SUM over the tensors contributed by the ranks 0..n-1
RECURSIVE ReduceSum(_, _)
ReduceSum(ts, n) ==
    IF n = 0 THEN [e \in TensorShape |-> 0]
    ELSE [e \in TensorShape |-> ts[n - 1][e] + ReduceSum(ts, n - 1)[e]]

\* expected.allclose(result_cpu), on integers
AllClose(a, b) == a = b

\* variant: the reduction writes its result into the input tensor
InputAfterReduceInPlace(x, result) == result

\* xm.all_reduce(reduce_type, tensor) called with one tensor returns a new
\* tensor and leaves its input as it was
InputAfterReduce(x, result) == x

\* world_size, device, rank are read; xones = ones.to(device)
ReduceStart(r) ==
    /\ r \in ActiveRanks
    /\ rank_pc[r] = "start"
    /\ xones' = [xones EXCEPT ![r] = Ones]
    /\ rank_pc' = [rank_pc EXCEPT ![r] = IF world_size > 0 THEN "loop" ELSE "done"]
    /\ UNCHANGED <<script, pc, error, now, mainVars, dataVars, poolVars,
                   workerVars, loopVars, metrics, probeVars, env_mode, stdout,
                   builderVars, bs_idx, world_size, rank_step, result_cpu,
                   reduced, trainVars, driverVars>>

\* for i in range(0, 5): xm.all_reduce(xm.REDUCE_SUM, xones) is entered
AllReduceEnter(r) ==
    /\ r \in ActiveRanks
    /\ rank_pc[r] = "loop"
    /\ rank_step[r] < ReduceIterations
    /\ reduced' = [reduced EXCEPT ![rank_step[r] + 1] = @ @@ (r :> xones[r])]
    /\ rank_pc' = [rank_pc EXCEPT ![r] = "all_reduce"]
    /\ UNCHANGED <<script, pc, error, now, mainVars, dataVars, poolVars,
                   workerVars, loopVars, metrics, probeVars, env_mode, stdout,
                   builderVars, bs_idx, world_size, rank_step, xones,
                   result_cpu, trainVars, driverVars>>

\* the round is complete: result_cpu = result.cpu(), next iteration
AllReduceReturn(r) ==
    /\ r \in ActiveRanks
    /\ rank_pc[r] = "all_reduce"
    /\ DOMAIN reduced[rank_step[r] + 1] = ActiveRanks
    /\ LET result == ReduceSum(reduced[rank_step[r] + 1], world_size) IN
        /\ result_cpu' = [result_cpu EXCEPT ![r] = result]
        /\ xones' = [xones EXCEPT ![r] = InputAfterReduce(xones[r], result)]
    /\ rank_step' = [rank_step EXCEPT ![r] = @ + 1]
    /\ rank_pc' = [rank_pc EXCEPT ![r] = "loop"]
    /\ UNCHANGED <<script, pc, error, now, mainVars, dataVars, poolVars,
                   workerVars, loopVars, metrics, probeVars, env_mode, stdout,
                   builderVars, bs_idx, world_size, reduced, trainVars,
                   driverVars>>

\* the runtime gives the collective up (NEURON_RT_EXEC_TIMEOUT): the call
\* raises and the process ends
AllReduceRaise(r) ==
    /\ r \in ActiveRanks
    /\ rank_pc[r] = "all_reduce"
    /\ rank_pc' = [rank_pc EXCEPT ![r] = "raised"]
    /\ UNCHANGED <<script, pc, error, now, mainVars, dataVars, poolVars,
                   workerVars, loopVars, metrics, probeVars, env_mode, stdout,
                   builderVars, bs_idx, world_size, rank_step, reduceVars,
                   trainVars, driverVars>>

\* expected = torch.ones((2,3))*world_size; assert expected.allclose(result_cpu)
AssertExpected(r) ==
    /\ r \in ActiveRanks
    /\ rank_pc[r] = "loop"
    /\ rank_step[r] = ReduceIterations
    /\ rank_pc' = [rank_pc EXCEPT ![r] =
                      IF AllClose(Scale(Ones, world_size), result_cpu[r])
                      THEN "pass" ELSE "assert_failed"]
    /\ UNCHANGED <<script, pc, error, now, mainVars, dataVars, poolVars,
                   workerVars, loopVars, metrics, probeVars, env_mode, stdout,
                   builderVars, bs_idx, world_size, rank_step, reduceVars,
                   trainVars, driverVars>>

InitReduce ==
    /\ script = "all_reduce"
    /\ pc = "job"
    /\ error = "none"
    /\ SetupIdle
    /\ FanOutIdle
    /\ LoopIdle
    /\ ProbeIdle
    /\ BuilderIdle
    /\ env_mode = Unset
    /\ stdout = <<>>
    /\ bs_idx = 0
    /\ world_size \in 1..MaxWorld
    /\ rank_pc = [r \in Ranks |-> IF r < world_size THEN "start" ELSE "none"]
    /\ rank_step = [r \in Ranks |-> 0]
    /\ xones = NoTensors
    /\ result_cpu = NoTensors
    /\ reduced = [k \in 1..ReduceIterations |-> <<>>]
    /\ printed = [r \in Ranks |-> 0]
    /\ group = [r \in Ranks |-> "none"]
    /\ tensor_model_parallel_size = 0
    /\ test = "none"
    /\ mp_initialized = FALSE
    /\ results = 1

NextReduce ==
    \E r \in Ranks :
        \/ ReduceStart(r)
        \/ AllReduceEnter(r)
        \/ AllReduceReturn(r)
        \/ AllReduceRaise(r)
        \/ AssertExpected(r)

SpecReduce == InitReduce /\ [][NextReduce]_vars

\* ---- the distributed training jobs ----------------------------------------
\* e2e2/test/images/nvidia-training/train.py (nvidia_train) and
\* e2e2/test/images/neuron-training/train.py (neuron_train): the launcher
\* starts world_size processes, rank r of them runs main() with RANK = r.
TrainScripts == {"nvidia_train", "neuron_train"}

\* create_dummy_data(tokenizer, num_samples=100), DataLoader(batch_size=8)
TrainSamples == 100
TrainBatchSize == 8

\* the batches one rank trains on: nvidia_train iterates the whole dataset
\* once, neuron_train iterates its DistributedSampler share in each of 5 epochs
TrainSteps(s, W) ==
    IF s = "nvidia_train" THEN 1 * CeilDiv(TrainSamples, TrainBatchSize)
    ELSE 5 * CeilDiv(CeilDiv(TrainSamples, W), TrainBatchSize)

\* variant: every rank prints the line
PrintsAverageAll(rank) == TRUE

\* if rank == 0:
PrintsAverage(rank) == rank = 0

\* main(): the environment is read, tokenizer and model are downloaded
\* (from_pretrained may raise)
TrainLoad(r) ==
    /\ r \in ActiveRanks
    /\ rank_pc[r] = "start"
    /\ \E ok \in BOOLEAN :
        rank_pc' = [rank_pc EXCEPT ![r] = IF ok THEN "setup" ELSE "raised"]
    /\ UNCHANGED <<script, pc, error, now, mainVars, dataVars, poolVars,
                   workerVars, loopVars, metrics, probeVars, env_mode, stdout,
                   builderVars, bs_idx, world_size, rank_step, reduceVars,
                   trainVars, driverVars>>

\* train_bert(): setup() initialises the process group; the model is wrapped
\* and the dataset and the optimizer are created; start_time is read
TrainSetup(r) ==
    /\ r \in ActiveRanks
    /\ rank_pc[r] = "setup"
    /\ \E ok \in BOOLEAN :
        IF ok
        THEN /\ group' = [group EXCEPT ![r] = "initialized"]
             /\ rank_pc' = [rank_pc EXCEPT ![r] = "train"]
        ELSE /\ rank_pc' = [rank_pc EXCEPT ![r] = "raised"]
             /\ UNCHANGED group
    /\ UNCHANGED <<script, pc, error, now, mainVars, dataVars, poolVars,
                   workerVars, loopVars, metrics, probeVars, env_mode, stdout,
                   builderVars, bs_idx, world_size, rank_step, reduceVars,
                   printed, driverVars>>

\* one batch: forward, loss.backward(), optimizer.step(); any of them may raise
TrainBatch(r) ==
    /\ r \in ActiveRanks
    /\ rank_pc[r] = "train"
    /\ rank_step[r] < TrainSteps(script, world_size)
    /\ \E ok \in BOOLEAN :
        IF ok
        THEN /\ rank_step' = [rank_step EXCEPT ![r] = @ + 1]
             /\ UNCHANGED rank_pc
        ELSE /\ rank_pc' = [rank_pc EXCEPT ![r] = "raised"]
             /\ UNCHANGED rank_step
    /\ UNCHANGED <<script, pc, error, now, mainVars, dataVars, poolVars,
                   workerVars, loopVars, metrics, probeVars, env_mode, stdout,
                   builderVars, bs_idx, world_size, reduceVars, trainVars,
                   driverVars>>

\* the loop is over: end_time is read and throughput = len(dataset) /
\* training_time is computed (a training time of 0.0 raises
\* ZeroDivisionError), then the two "Process {rank}" lines are printed
TrainTimed(r) ==
    /\ r \in ActiveRanks
    /\ rank_pc[r] = "train"
    /\ rank_step[r] = TrainSteps(script, world_size)
    /\ \E training_time \in 0..MaxTime :
        rank_pc' = [rank_pc EXCEPT ![r] =
                       IF training_time = 0 THEN "raised" ELSE "cleanup"]
    /\ UNCHANGED <<script, pc, error, now, mainVars, dataVars, poolVars,
                   workerVars, loopVars, metrics, probeVars, env_mode, stdout,
                   builderVars, bs_idx, world_size, rank_step, reduceVars,
                   trainVars, driverVars>>

\* cleanup(): destroy_process_group(); train_bert returns the throughput
TrainCleanup(r) ==
    /\ r \in ActiveRanks
    /\ rank_pc[r] = "cleanup"
    /\ group' = [group EXCEPT ![r] = "destroyed"]
    /\ rank_pc' = [rank_pc EXCEPT ![r] = "returned"]
    /\ UNCHANGED <<script, pc, error, now, mainVars, dataVars, poolVars,
                   workerVars, loopVars, metrics, probeVars, env_mode, stdout,
                   builderVars, bs_idx, world_size, rank_step, reduceVars,
                   printed, driverVars>>

\* back in main(): if rank == 0: print("Average Throughput: ..."); main ends
TrainMainEnd(r) ==
    /\ r \in ActiveRanks
    /\ rank_pc[r] = "returned"
    /\ printed' = [printed EXCEPT ![r] = IF PrintsAverage(r) THEN @ + 1 ELSE @]
    /\ rank_pc' = [rank_pc EXCEPT ![r] = "done"]
    /\ UNCHANGED <<script, pc, error, now, mainVars, dataVars, poolVars,
                   workerVars, loopVars, metrics, probeVars, env_mode, stdout,
                   builderVars, bs_idx, world_size, rank_step, reduceVars,
                   group, driverVars>>

InitTrain ==
    /\ script \in TrainScripts
    /\ pc = "job"
    /\ error = "none"
    /\ SetupIdle
    /\ FanOutIdle
    /\ LoopIdle
    /\ ProbeIdle
    /\ BuilderIdle
    /\ env_mode = Unset
    /\ stdout = <<>>
    /\ bs_idx = 0
    /\ world_size \in 1..MaxWorld
    /\ rank_pc = [r \in Ranks |-> IF r < world_size THEN "start" ELSE "none"]
    /\ rank_step = [r \in Ranks |-> 0]
    /\ xones = NoTensors
    /\ result_cpu = NoTensors
    /\ reduced = <<>>
    /\ printed = [r \in Ranks |-> 0]
    /\ group = [r \in Ranks |-> "none"]
    /\ tensor_model_parallel_size = 0
    /\ test = "none"
    /\ mp_initialized = FALSE
    /\ results = 1

NextTrain ==
    \E r \in Ranks :
        \/ TrainLoad(r)
        \/ TrainSetup(r)
        \/ TrainBatch(r)
        \/ TrainTimed(r)
        \/ TrainCleanup(r)
        \/ TrainMainEnd(r)

SpecTrain == InitTrain /\ [][NextTrain]_vars

\* ---- the parallel-state test driver ----------------------------------------
\* e2e2/test/images/neuron/tests/testNeuronParallelState.py, one process of
\* the job.  parallel_state is the neuronx_distributed library: initialize
\* sets the model-parallel state, destroy clears it; initialize refuses a
\* size that does not divide the world size.  The values its getters return
\* and the barrier are inputs: a check passes or fails, the barrier returns
\* or raises.
DriverTests == <<"initialize_model_parallel", "get_tensor_model_parallel_src_rank">>

\* tensor_model_parallel_size *= 2
NextSize(size) == size * 2

\* variant: destroy leaves the state as it is
DestroyModelParallelKeeps(initialized) == initialized

\* parallel_state.destroy_model_parallel()
DestroyModelParallel(initialized) == FALSE

\* __main__: init_process_group, world_size = xm.xrt_world_size(),
\* tensor_model_parallel_size = 1
DriverStart ==
    /\ pc = "start"
    /\ tensor_model_parallel_size' = 1
    /\ pc' = "while"
    /\ UNCHANGED <<script, error, now, mainVars, dataVars, poolVars,
                   workerVars, loopVars, metrics, probeVars, env_mode, stdout,
                   builderVars, bs_idx, rankVars, reduceVars, trainVars,
                   test, mp_initialized, results>>

\* while tensor_model_parallel_size <= world_size: the first test is called
DriverWhile ==
    /\ pc = "while"
    /\ IF tensor_model_parallel_size <= world_size
       THEN /\ test' = DriverTests[1]
            /\ pc' = "enter"
       ELSE /\ pc' = "done"
            /\ UNCHANGED test
    /\ UNCHANGED <<script, error, now, mainVars, dataVars, poolVars,
                   workerVars, loopVars, metrics, probeVars, env_mode, stdout,
                   builderVars, bs_idx, rankVars, reduceVars, trainVars,
                   tensor_model_parallel_size, mp_initialized, results>>

\* the size is clamped to the world size;
\* assert not parallel_state.model_parallel_is_initialized()
TestEnter ==
    /\ pc = "enter"
    /\ IF mp_initialized
       THEN pc' = "handler" /\ error' = "AssertionError"
       ELSE pc' = "initialize" /\ UNCHANGED error
    /\ UNCHANGED <<script, now, mainVars, dataVars, poolVars,
                   workerVars, loopVars, metrics, probeVars, env_mode, stdout,
                   builderVars, bs_idx, rankVars, reduceVars, trainVars,
                   driverVars>>

\* parallel_state.initialize_model_parallel(min(size, world_size))
TestInitialize ==
    /\ pc = "initialize"
    /\ \E ok \in BOOLEAN :
        IF ok /\ world_size % Min(tensor_model_parallel_size, world_size) = 0
        THEN /\ mp_initialized' = TRUE
             /\ pc' = "assert_initialized"
             /\ UNCHANGED error
        ELSE /\ pc' = "handler"
             /\ error' = "RuntimeError"
             /\ UNCHANGED mp_initialized
    /\ UNCHANGED <<script, now, mainVars, dataVars, poolVars,
                   workerVars, loopVars, metrics, probeVars, env_mode, stdout,
                   builderVars, bs_idx, rankVars, reduceVars, trainVars,
                   tensor_model_parallel_size, test, results>>

\* assert parallel_state.model_parallel_is_initialized()
TestAssertInitialized ==
    /\ pc = "assert_initialized"
    /\ IF mp_initialized
       THEN pc' = "checks" /\ UNCHANGED error
       ELSE pc' = "handler" /\ error' = "AssertionError"
    /\ UNCHANGED <<script, now, mainVars, dataVars, poolVars,
                   workerVars, loopVars, metrics, probeVars, env_mode, stdout,
                   builderVars, bs_idx, rankVars, reduceVars, trainVars,
                   driverVars>>

\* the asserts on sizes, ranks and groups (on the source rank in the second
\* test) against what the library returns
TestChecks ==
    /\ pc = "checks"
    /\ \E ok \in BOOLEAN :
        IF ok
        THEN pc' = "destroy" /\ UNCHANGED error
        ELSE pc' = "handler" /\ error' = "AssertionError"
    /\ UNCHANGED <<script, now, mainVars, dataVars, poolVars,
                   workerVars, loopVars, metrics, probeVars, env_mode, stdout,
                   builderVars, bs_idx, rankVars, reduceVars, trainVars,
                   driverVars>>

\* # Reset groups
TestDestroy ==
    /\ pc = "destroy"
    /\ mp_initialized' = DestroyModelParallel(mp_initialized)
    /\ pc' = "barrier"
    /\ UNCHANGED <<script, error, now, mainVars, dataVars, poolVars,
                   workerVars, loopVars, metrics, probeVars, env_mode, stdout,
                   builderVars, bs_idx, rankVars, reduceVars, trainVars,
                   tensor_model_parallel_size, test, results>>

\* torch.distributed.barrier(), "test passed", and the test returns: the
\* driver calls the second test, or doubles the size after it
TestBarrier ==
    /\ pc = "barrier"
    /\ \E ok \in BOOLEAN :
        IF ~ok
        THEN /\ pc' = "handler"
             /\ error' = "RuntimeError"
             /\ UNCHANGED <<test, tensor_model_parallel_size>>
        ELSE IF test = DriverTests[1]
        THEN /\ test' = DriverTests[2]
             /\ pc' = "enter"
             /\ UNCHANGED <<error, tensor_model_parallel_size>>
        ELSE /\ tensor_model_parallel_size' = NextSize(tensor_model_parallel_size)
             /\ test' = "none"
             /\ pc' = "while"
             /\ UNCHANGED error
    /\ UNCHANGED <<script, now, mainVars, dataVars, poolVars,
                   workerVars, loopVars, metrics, probeVars, env_mode, stdout,
                   builderVars, bs_idx, rankVars, reduceVars, trainVars,
                   mp_initialized, results>>

\* except: results["inference_success"] = 0; the traceback is printed; raise
TestHandler ==
    /\ pc = "handler"
    /\ results' = 0
    /\ pc' = "raised"
    /\ UNCHANGED <<script, error, now, mainVars, dataVars, poolVars,
                   workerVars, loopVars, metrics, probeVars, env_mode, stdout,
                   builderVars, bs_idx, rankVars, reduceVars, trainVars,
                   tensor_model_parallel_size, test, mp_initialized>>

InitDriver ==
    /\ script = "parallel_state"
    /\ pc = "start"
    /\ error = "none"
    /\ SetupIdle
    /\ FanOutIdle
    /\ LoopIdle
    /\ ProbeIdle
    /\ BuilderIdle
    /\ env_mode = Unset
    /\ stdout = <<>>
    /\ bs_idx = 0
    /\ world_size \in 1..MaxXrtWorld
    /\ rank_pc = [r \in Ranks |-> "none"]
    /\ rank_step = [r \in Ranks |-> 0]
    /\ xones = NoTensors
    /\ result_cpu = NoTensors
    /\ reduced = <<>>
    /\ printed = [r \in Ranks |-> 0]
    /\ group = [r \in Ranks |-> "none"]
    /\ tensor_model_parallel_size = 0
    /\ test = "none"
    /\ mp_initialized = FALSE
    /\ results = 1

NextDriver ==
    \/ DriverStart
    \/ DriverWhile
    \/ TestEnter
    \/ TestInitialize
    \/ TestAssertInitialized
    \/ TestChecks
    \/ TestDestroy
    \/ TestBarrier
    \/ TestHandler

\* The process runs on as long as it has a step to take: every call of the
\* driver returns or raises.
SpecDriver == InitDriver /\ [][NextDriver]_vars /\ WF_vars(NextDriver)

\* ---- the single-threaded loops, row by row ---------------------------------
\* run_inference() of neuron_st, nvidia_st and bert_st from the dataset on:
\* how many rows each batch of the DataLoader holds, and what the report
\* counts.  rows_processed counts the rows handed to the model.
LoopScripts == {"neuron_st", "nvidia_st", "bert_st"}

\* num_samples=100 in every run_inference
InferSamples == 100

\* len(dataset): neuron_st and nvidia_st cut num_samples down to a multiple of
\* batch_size, create_dummy_data of bert_st takes no batch_size and keeps it
LoaderSamples(s, bs) ==
    IF s = "bert_st" THEN InferSamples ELSE AdjustSamples(InferSamples, bs)

\* len(DataLoader(dataset, batch_size=bs)), drop_last being False
LoaderLen(n, bs) == CeilDiv(n, bs)

\* rows of the k-th batch: the last batch holds what is left
BatchRows(n, bs, k) == Min(bs, n - (k - 1) * bs)

\* bert_st divides by total_time without a check
LoopZeroTimeError(s, t) ==
    IF s = "bert_st" /\ t = 0 THEN "ZeroDivisionError" ELSE ZeroTimeError(s, t)

\* dataset = create_dummy_data(...); dataloader = DataLoader(dataset,
\* batch_size); total_time = 0; total_batches = len(dataloader)
RowsLoader ==
    /\ pc = "create_data"
    /\ dataset' = TRUE
    /\ num_samples' = LoaderSamples(script, batch_size)
    /\ nbatches' = LoaderLen(LoaderSamples(script, batch_size), batch_size)
    /\ started' = TRUE
    /\ pc' = "row_loop"
    /\ UNCHANGED <<script, error, now, mainVars, traced, poolVars, workerVars,
                   loopVars, metrics, probeVars, env_mode, stdout, seed, rng,
                   records, call, first_records, bs_idx, distVars>>

\* one batch: the model is called on its rows and the time of the call is
\* added to total_time, or the call raises
RowsBatch ==
    /\ pc = "row_loop"
    /\ st_idx < nbatches
    /\ \/ \E d \in 0..MaxTime :
            /\ total_time' = total_time + d
            /\ rows_processed' =
                  rows_processed + BatchRows(num_samples, batch_size, st_idx + 1)
            /\ st_idx' = st_idx + 1
            /\ UNCHANGED <<pc, error>>
       \/ /\ pc' = "raised"
          /\ error' = "InferenceError"
          /\ UNCHANGED <<total_time, rows_processed, st_idx>>
    /\ UNCHANGED <<script, now, mainVars, dataVars, n_threads, n_models,
                   thread_batches, submitted, collected, begin, end,
                   workerVars, st_start, metrics, probeVars, env_mode, stdout,
                   builderVars, bs_idx, distVars>>

\* after the loop: avg_time_per_batch and
\* throughput = (total_batches * batch_size) / total_time are logged
RowsReport ==
    /\ pc = "row_loop"
    /\ st_idx = nbatches
    /\ IF LoopZeroTimeError(script, total_time) # "none"
       THEN /\ pc' = "raised"
            /\ error' = LoopZeroTimeError(script, total_time)
            /\ UNCHANGED metrics
       ELSE /\ metrics' = Append(metrics, StMetrics(script, total_time))
            /\ pc' = "done"
            /\ UNCHANGED error
    /\ UNCHANGED <<script, now, mainVars, dataVars, poolVars, workerVars,
                   loopVars, probeVars, env_mode, stdout, builderVars, bs_idx,
                   distVars>>

InitRows ==
    /\ script \in LoopScripts
    /\ pc = "create_data"
    /\ error = "none"
    /\ env_ok = TRUE
    /\ \E m \in Modes :
        /\ mode = m
        /\ batch_size = IF m = "latency" THEN LatencyBatchSize
                        ELSE ThroughputBatchSize
    /\ model_loaded = TRUE
    /\ dataset = FALSE
    /\ nbatches = 0
    /\ traced = FALSE
    /\ started = FALSE
    /\ FanOutIdle
    /\ LoopIdle
    /\ ExtIdle

NextRows ==
    \/ RowsLoader
    \/ RowsBatch
    \/ RowsReport

SpecRows == InitRows /\ [][NextRows]_vars

\* ==== properties ===========================================================
Mt == script = "neuron_mt"

\* the submit loop of neuron_mt has handed out every task
FannedOut == Mt /\ pc \in {"collect", "report", "done"}

\* the worker tasks a batch was handed to
Holders(b) == {w \in 1..submitted : b \in Range(wbatches[w])}

\* C1: once the submit loop is over, every batch of the batch list is in the
\* partition of exactly one submitted worker task (none dropped, none twice)
EveryBatchHandedOnce ==
    (FannedOut /\ nbatches >= 1) =>
        \A b \in 1..nbatches : Cardinality(Holders(b)) = 1

\* C2 as stated: when n_threads does not divide the batch count, the
\* partitioning step yields exactly n_threads - 1 partitions summing to it
PartitionCountTMinusOne ==
    (Mt /\ started /\ nbatches % n_threads # 0) =>
        /\ Len(thread_batches) = n_threads - 1
        /\ SumLen(thread_batches) = nbatches

\* C2 amended: with q = B div T >= 1 and B mod T # 0 the step yields
\* ceil(B / q) - 1 partitions, which is T when B mod T <= q: all but the last
\* hold q batches, the last holds the second-to-last chunk followed by the
\* last chunk, the partitions are the batch list in order and sum to B;
\* with B < T the step raises ValueError and yields no partition
PartitionMergesRemainder ==
    /\ (Mt /\ started /\ nbatches % n_threads # 0) =>
        LET q == nbatches \div n_threads
            n == Len(thread_batches)
        IN  /\ n = CeilDiv(nbatches, q) - 1
            /\ (nbatches % n_threads <= q) => n = n_threads
            /\ (nbatches % n_threads > q) => n > n_threads
            /\ \A k \in 1..(n - 1) : Len(thread_batches[k]) = q
            /\ Len(thread_batches[n]) = nbatches - q * (n - 1)
            /\ Len(thread_batches[n]) > q
            /\ \A k \in 1..n : \A j \in 1..Len(thread_batches[k]) :
                   thread_batches[k][j] = q * (k - 1) + j
            /\ SumLen(thread_batches) = nbatches
    /\ (Mt /\ traced /\ pc # "partition" /\ nbatches < n_threads) =>
        /\ pc = "raised"
        /\ error = "ValueError"
        /\ thread_batches = <<>>
        /\ ~started

PartitionMergesRemainderWitness ==
    /\ Mt
    /\ started
    /\ nbatches % n_threads # 0
    /\ Len(thread_batches) = n_threads
    /\ Len(thread_batches[n_threads]) = (nbatches \div n_threads) + 1

\* two worker tasks are inside a call of the same replica instance
SharedCall(w1, w2) ==
    /\ w1 # w2
    /\ wpc[w1] = "calling"
    /\ wpc[w2] = "calling"
    /\ wmodel[w1] = wmodel[w2]

\* C3 as stated: no replica instance is ever being invoked by two worker
\* threads at the same time
NoReplicaSharedInCall ==
    Mt => \A w1, w2 \in Workers : ~SharedCall(w1, w2)

\* C3 amended: two tasks have the same replica exactly when their submit
\* indexes are congruent modulo n_models, so with n_models >= n_threads no
\* replica is invoked by two threads at once
NoReplicaSharedWhenEnoughReplicas ==
    Mt =>
        /\ \A w1, w2 \in 1..submitted :
               (w1 <= w2) =>
                   ((wmodel[w1] = wmodel[w2]) <=> ((w2 - w1) % n_models = 0))
        /\ (n_models >= n_threads) =>
               \A w1, w2 \in Workers : ~SharedCall(w1, w2)

NoReplicaSharedWitness ==
    /\ Mt
    /\ n_models >= n_threads
    /\ \E w1, w2 \in Workers :
        /\ w1 # w2
        /\ wpc[w1] = "calling"
        /\ wpc[w2] = "calling"
        /\ wmodel[w1] # wmodel[w2]

\* C4: once a model call has raised in a worker task no metrics are logged,
\* the run never reaches the metrics computation, and when it ends it ends
\* with that exception propagated
WorkerFailureAborts ==
    (Mt /\ \E w \in Workers : wpc[w] = "failed") =>
        /\ metrics = <<>>
        /\ pc \in {"submit", "collect", "unwind", "raised"}
        /\ pc = "raised" => (error = "InferenceError" /\ ExitStatus = 1)

WorkerFailureAbortsWitness ==
    /\ Mt
    /\ pc = "raised"
    /\ error = "InferenceError"
    /\ latencies # <<>>
    /\ \E w \in Workers : wpc[w] = "done" /\ wdone[w] >= 1
    /\ \E w \in Workers : wpc[w] = "failed"

\* C5: the metrics are computed and logged only after every one of the
\* n_threads worker tasks has run its whole partition, and an exception
\* leaves run_inference only after every submitted task has ended
JoinBeforeMetrics ==
    Mt =>
        /\ (pc \in {"report", "done"} \/ metrics # <<>>) =>
               /\ submitted = n_threads
               /\ \A w \in 1..n_threads :
                      wpc[w] = "done" /\ wdone[w] = Len(wbatches[w])
        /\ (pc = "raised" /\ started) => \A w \in 1..submitted : Finished(w)

JoinBeforeMetricsWitness ==
    /\ Mt
    /\ pc = "done"
    /\ metrics # <<>>
    /\ n_threads >= 2
    /\ \A w \in 1..n_threads : wdone[w] >= 1

\* C6: the latency list always holds one sample per completed model call, so
\* after the join it holds one per batch handed out, total_batches_processed
\* is the number of batches the workers ran and total_inferences their rows
AppendsExact ==
    Mt =>
        /\ Len(latencies) = SumTo(wdone, MaxT)
        /\ pc \in {"report", "done"} =>
               /\ Len(latencies) = SumLen(wbatches)
               /\ rows_processed = batch_size * Len(latencies)
        /\ \A k \in 1..Len(metrics) :
               /\ metrics[k].batches = SumTo(wdone, MaxT)
               /\ metrics[k].samples = batch_size * SumTo(wdone, MaxT)

AppendsExactWitness ==
    /\ Mt
    /\ pc = "done"
    /\ n_threads >= 2
    /\ Len(latencies) >= 3
    /\ \E j, k \in 1..Len(latencies) : j < k /\ latencies[j] > latencies[k]
    /\ metrics[1].batches = Len(latencies)

AggErrors == {"IndexError", "ZeroDivisionError"}

Elapsed == IF Mt THEN end - begin ELSE total_time

ValidReport(m) == ~m.avg_inf /\ m.tp_num > 0 /\ m.tp_den > 0

\* C8 as stated: in every script a run with zero elapsed time is never
\* reported: no report has zero throughput or infinite average time
ZeroTimeNeverReported ==
    /\ \A k \in 1..Len(metrics) : ValidReport(metrics[k])
    /\ pc = "done" => Elapsed > 0

\* C8 amended: in the two Neuron scripts a run with zero elapsed time raises
\* at the reporting stage and logs nothing; nvidia_st reports it, with an
\* infinite average time and throughput 0
ZeroTimeRaisesInNeuronScripts ==
    /\ script \in NeuronScripts =>
        /\ \A k \in 1..Len(metrics) : ValidReport(metrics[k])
        /\ pc = "done" => Elapsed > 0
        /\ error \in {"RuntimeError", "ZeroDivisionError"} =>
               (Elapsed = 0 /\ pc = "raised" /\ metrics = <<>>)
        /\ (script = "neuron_st" /\ Terminated /\ started
              /\ st_idx = nbatches /\ total_time = 0) =>
               (pc = "raised" /\ error = "RuntimeError")
    /\ (script = "nvidia_st" /\ pc = "done") =>
        /\ Len(metrics) = 1
        /\ total_time = 0 => (metrics[1].avg_inf /\ metrics[1].tp_num = 0)
        /\ total_time > 0 => ValidReport(metrics[1])

ZeroTimeRaisesWitness ==
    /\ script = "neuron_st"
    /\ st_idx >= 1
    /\ total_time = 0
    /\ pc = "raised"
    /\ error = "RuntimeError"

\* the run-level state, read off what the run has done so far
RunState ==
    IF pc \in {"exit1", "raised"} THEN "FAILED"
    ELSE IF metrics # <<>> THEN "REPORTED"
    ELSE IF started THEN "RUNNING"
    ELSE IF traced THEN "MODEL_COMPILED"
    ELSE IF dataset THEN "DATA_READY"
    ELSE IF env_ok THEN "ENVIRONMENT_CHECK"
    ELSE "INIT"

StateOrder ==
    <<"INIT", "ENVIRONMENT_CHECK", "DATA_READY", "MODEL_COMPILED", "RUNNING",
      "REPORTED">>

StateIndex(st) == CHOOSE k \in 1..Len(StateOrder) : StateOrder[k] = st

\* a model call has been started
BatchRun ==
    \/ pc = "st_calling"
    \/ st_idx > 0
    \/ \E w \in Workers : wpc[w] \in {"calling", "failed"} \/ wdone[w] > 0

RunStateStep ==
    /\ RunState # "FAILED"
    /\ \/ RunState' = RunState
       \/ RunState' = "FAILED" /\ RunState # "REPORTED"
       \/ /\ RunState' # "FAILED"
          /\ StateIndex(RunState') = StateIndex(RunState) + 1
    /\ traced' => dataset'
    /\ BatchRun' => (traced' /\ RunState' \in {"RUNNING", "REPORTED", "FAILED"})
    /\ metrics' # <<>> => RunState' = "REPORTED"

\* C9: in the Neuron scripts the run-level state only stays, moves to the
\* next state of the order or fails; tracing needs the dataset, a model call
\* needs the traced model, metrics are logged only in REPORTED
RunStateForward == [][(script \in NeuronScripts) => RunStateStep]_vars

RunStateForwardWitness ==
    /\ script \in NeuronScripts
    /\ RunState = "REPORTED"
    /\ pc = "done"

\* C10: a failed environment check ends main with sys.exit(1) at once: no
\* model is loaded, no dataset generated, nothing traced, run or reported
EnvFailureExits ==
    ~env_ok =>
        /\ pc \in {"start", "exit1"}
        /\ pc = "exit1" => (error = "SystemExit" /\ ExitStatus = 1)
        /\ ~model_loaded
        /\ ~dataset
        /\ ~traced
        /\ ~started
        /\ ~BatchRun
        /\ metrics = <<>>

EnvFailureExitsWitness ==
    /\ ~env_ok
    /\ pc = "exit1"
    /\ ExitStatus = 1

\* the probe call is over: it returned, or it raised into main
ProbeOver == pc \in {"probe_returned", "probe_raised", "resolve_mode",
                     "exit1", "raised"}

\* the cases the probe must refuse: executable not found, empty first line,
\* first line that is not JSON, count field missing or not positive
ProbeRefusalCase ==
    \/ proc = "none"
    \/ output.kind \in {"empty", "newline", "garbage"}
    \/ (output.kind = "json" /\ CountOf(output) <= 0)

ModeResolved == pc \in {"load_model", "create_data"} /\ env_ok

\* C13: INFERENCE_MODE equal to latency in any letter case gives batch size
\* 1; throughput or unset gives batch size 8; any other value logs a warning,
\* is replaced by throughput and gives batch size 8, so the mode handed to the
\* report is always throughput or latency
ModeAlwaysRecognized ==
    (script \in ModeScripts /\ ModeResolved) =>
        /\ mode \in Modes
        /\ Lower(GetEnvMode(env_mode)) = "latency" =>
              batch_size = LatencyBatchSize
        /\ Lower(GetEnvMode(env_mode)) # "latency" =>
              (batch_size = ThroughputBatchSize /\ mode = "throughput")
        /\ Lower(GetEnvMode(env_mode)) \notin Modes =>
              stdout = <<"warning">>

\* create_dummy_data has returned a dataset, whose rows are the records built
DatasetReturned == pc \in {"called_once", "called_twice"}

\* C14: the dataset create_dummy_data returns has the largest multiple of
\* batch_size not exceeding num_samples as its size: (n // batch_size) *
\* batch_size, strictly less than n, when batch_size does not divide n, and n
\* when it does
DatasetSizeLargestMultiple ==
    DatasetReturned =>
        /\ Len(records) % batch_size = 0
        /\ Len(records) <= num_samples
        /\ num_samples - Len(records) < batch_size
        /\ num_samples % batch_size # 0 =>
              /\ Len(records) = (num_samples \div batch_size) * batch_size
              /\ Len(records) < num_samples
        /\ num_samples % batch_size = 0 => Len(records) = num_samples

DatasetSizeLargestMultipleWitness ==
    /\ DatasetReturned
    /\ batch_size = ThroughputBatchSize
    /\ num_samples = ThroughputBatchSize + 1
    /\ Len(records) = ThroughputBatchSize

\* C15: two calls of the seeded create_dummy_data with the same seed,
\* num_samples and batch_size return the same sentence pairs and the same
\* labels, whatever state the process-wide generator was in before each call
SeededBuilderRepeats ==
    (script \in SeededScripts /\ pc = "called_twice") =>
        records = first_records

SeededBuilderRepeatsWitness ==
    /\ script \in SeededScripts
    /\ pc = "called_twice"
    /\ Len(records) >= 2
    /\ rng # seed

\* C17: in every dataset the builder makes, a record labelled 1 has the
\* cyclic successor of its sentence_a in the 10-sentence pool as sentence_b;
\* a record labelled 0 may have that successor as well
LabelOneIsSuccessor ==
    \A k \in 1..Len(records) :
        /\ records[k][1] \in 0..(PoolSize - 1)
        /\ records[k][2] \in 0..(PoolSize - 1)
        /\ records[k][3] \in {0, 1}
        /\ records[k][3] = 1 => records[k][2] = (records[k][1] + 1) % PoolSize

LabelOneIsSuccessorWitness ==
    /\ DatasetReturned
    /\ \E k \in 1..Len(records) :
          records[k][3] = 0 /\ records[k][2] = (records[k][1] + 1) % PoolSize
    /\ \E k \in 1..Len(records) :
          records[k][3] = 1 /\ records[k][2] = (records[k][1] + 1) % PoolSize

\* the out-of-memory messages the search has printed, in order
OomLines == SelectSeq(stdout, LAMBDA l : l.line = "oom")

\* some batch of the run has failed
BatchFailed == error \in {"InferenceError", "RuntimeError", "ValueError"}
               \/ OomLines # <<>>

\* C12 as stated: in every script a failing batch aborts the whole run at once
\* with a propagated error; no batch, batch size or run is attempted again
\* after a failure
NoReattemptAfterFailure ==
    BatchFailed => (pc = "raised" /\ error # "none")

\* C12, amended: a failing batch ends the pass it belongs to.  In the
\* inference loop and for every failure of the search that is not an
\* out-of-memory RuntimeError the error propagates and nothing is logged as a
\* result.  After an out-of-memory RuntimeError the search starts a new pass
\* with the next candidate, so every failed size is larger than the size
\* being tried and no size is tried twice
FailureAbortsOrShrinks ==
    /\ error # "none" => pc = "raised"
    /\ error \in {"InferenceError", "ValueError"} => metrics = <<>>
    /\ (script = "neuron_st" /\ pc = "raised") => metrics = <<>>
    /\ script \in SearchScripts =>
          /\ (error = "RuntimeError" /\ st_idx < nbatches) => metrics = <<>>
          /\ Len(OomLines) = bs_idx - 1
          /\ \A k \in 1..Len(OomLines) :
                /\ OomLines[k].batch_size = BatchSizesOf(script)[k]
                /\ pc = "search_loop" => OomLines[k].batch_size > batch_size
          /\ pc = "search_loop" => batch_size = BatchSizesOf(script)[bs_idx]

FailureAbortsOrShrinksWitness ==
    /\ script \in SearchScripts
    /\ pc = "search_loop"
    /\ bs_idx = 3
    /\ st_idx = 2

\* tracing has failed: logger.exception has written the failure
TraceFailed == \E k \in 1..Len(stdout) : stdout[k] = "exception"

\* C16: when tracing the model fails in run_inference, the failure is logged
\* and re-raised; no batch is run through any model afterwards, traced or
\* untraced, and no metrics line is logged
TraceFailureIsFinal ==
    /\ error = "TraceError" => TraceFailed
    /\ TraceFailed =>
          /\ script \in NeuronScripts
          /\ pc = "raised"
          /\ error = "TraceError"
          /\ ~traced
          /\ ~started
          /\ ~BatchRun
          /\ submitted = 0
          /\ latencies = <<>>
          /\ metrics = <<>>

TraceFailureIsFinalWitness ==
    /\ error = "TraceError"
    /\ script = "neuron_mt"
    /\ dataset
    /\ nbatches >= n_threads

\* C18: worker task i, counted from 0, is given replica i mod R of the R
\* replicas built, so the numbers of tasks per used replica differ by at most
\* one and min(n_threads, R) distinct replicas are invoked
TasksOf(r) == {w \in 1..submitted : wmodel[w] = r}

UsedReplicas == {wmodel[w] : w \in 1..submitted}

RoundRobinReplicas ==
    Mt =>
        /\ \A w \in 1..submitted : wmodel[w] = (w - 1) % n_models
        /\ \A r1, r2 \in UsedReplicas :
              Cardinality(TasksOf(r1)) - Cardinality(TasksOf(r2)) <= 1
        /\ FannedOut =>
              /\ Cardinality(UsedReplicas) = Min(n_threads, n_models)
              /\ UsedReplicas = 0..(Min(n_threads, n_models) - 1)
        /\ \A w \in Workers : (wpc[w] # "none") => w <= submitted

RoundRobinReplicasWitness ==
    /\ Mt
    /\ pc = "done"
    /\ n_threads = 3
    /\ n_models = 2
    /\ Cardinality(TasksOf(0)) = 2
    /\ Cardinality(TasksOf(1)) = 1

\* C19: the duration behind the throughput is the wall-clock span of the whole
\* fan-out: begin is read before any task is submitted and end after every
\* task has completed, so every per-batch interval lies inside the span, and
\* the throughput is the rows processed over this span, not over the sum of
\* the per-batch times
SpanIsWholeFanOut ==
    Mt =>
        /\ submitted > 0 => (started /\ begin <= now)
        /\ \A w \in Workers :
              wpc[w] = "calling" =>
                  /\ begin <= wstart[w]
                  /\ pc \notin {"report", "done"}
        /\ pc \in {"report", "done"} =>
              /\ begin <= end
              /\ end <= now
              /\ \A w \in 1..n_threads : Finished(w)
              /\ \A k \in 1..Len(latencies) :
                    latencies[k] <= (end - begin) * MsPerSecond
        /\ \A k \in 1..Len(metrics) :
              /\ metrics[k].tp_den = end - begin
              /\ metrics[k].tp_num = rows_processed
              /\ rows_processed = SumLen(wbatches) * batch_size

SpanIsWholeFanOutWitness ==
    /\ Mt
    /\ pc = "done"
    /\ end - begin = 1
    /\ Len(latencies) >= 2
    /\ SumTo(latencies, Len(latencies)) = 2 * MsPerSecond

\* the k-th smallest sample of a list, counted with repetitions
OrderStatistic(lat, k) ==
    CHOOSE v \in Range(lat) :
        /\ Cardinality({i \in 1..Len(lat) : lat[i] < v}) < k
        /\ k <= Cardinality({i \in 1..Len(lat) : lat[i] <= v})

\* the value interpolated linearly between the order statistics around the
\* virtual index (n - 1) * q / 100, in hundredths
Interpolated(lat, q) ==
    LET h == (Len(lat) - 1) * q
        lo == h \div PctScale + 1
        hi == Min(lo + 1, Len(lat))
    IN  OrderStatistic(lat, lo) * (PctScale - (h % PctScale))
          + OrderStatistic(lat, hi) * (h % PctScale)

MtReported == Mt /\ pc = "done" /\ Len(metrics) = 1

\* C21: the p50 reported for the latencies [10, 20, 30, 40, 50] is 30; every
\* reported percentile is the value interpolated linearly between the order
\* statistics of the samples, and for an odd number of samples the p50 is the
\* middle order statistic
PercentileInterpolates ==
    MtReported =>
        /\ latencies = <<10, 20, 30, 40, 50>> => metrics[1].p50 = 30 * PctScale
        /\ metrics[1].p50 = Interpolated(latencies, 50)
        /\ metrics[1].p95 = Interpolated(latencies, 95)
        /\ metrics[1].p99 = Interpolated(latencies, 99)
        /\ Len(latencies) % 2 = 1 =>
              metrics[1].p50 =
                  OrderStatistic(latencies, (Len(latencies) + 1) \div 2) * PctScale

PercentileInterpolatesWitness ==
    /\ MtReported
    /\ latencies = <<10, 20, 30, 40, 50>>
    /\ metrics[1].p50 = 30 * PctScale
    /\ metrics[1].p95 = 48 * PctScale

\* the list with its samples rearranged by the permutation f of its indices
Rearranged(lat, f) == [k \in 1..Len(lat) |-> lat[f[k]]]

TooFewBatchesFailPartition ==
    /\ (Mt /\ dataset /\ nbatches < n_threads) =>
        /\ pc \in {"trace", "partition", "raised"}
        /\ (pc = "raised" /\ traced) => error = "ValueError"
        /\ ~started
        /\ thread_batches = <<>>
        /\ submitted = 0
        /\ \A w \in Workers : wpc[w] = "none" /\ wdone[w] = 0
        /\ latencies = <<>>
        /\ metrics = <<>>
    /\ (Mt /\ started) =>
        /\ nbatches >= n_threads
        /\ Len(thread_batches) >= n_threads
        /\ error # "IndexError"
        /\ \A w \in 1..submitted : wbatches[w] = thread_batches[w]

TooFewBatchesFailPartitionWitness ==
    /\ Mt
    /\ traced
    /\ nbatches > 0
    /\ nbatches < n_threads
    /\ pc = "raised"
    /\ error = "ValueError"

\* C22: on every rank and in every iteration the SUM all-reduce of the
\* all-ones tensor has world_size in every element and the input tensor is
\* still all ones, so the final assertion fails on no rank
AllReduceGivesWorldSize ==
    \A r \in ActiveRanks :
        /\ rank_pc[r] # "assert_failed"
        /\ rank_pc[r] # "start" => xones[r] = Ones
        /\ rank_step[r] >= 1 =>
              \A e \in TensorShape : result_cpu[r][e] = world_size
        /\ \A k \in 1..ReduceIterations : \A q \in DOMAIN reduced[k] :
              reduced[k][q] = Ones

AllReduceGivesWorldSizeWitness ==
    /\ script = "all_reduce"
    /\ world_size = 2
    /\ \A r \in ActiveRanks :
        /\ rank_pc[r] = "pass"
        /\ rank_step[r] = ReduceIterations
        /\ \A e \in TensorShape : result_cpu[r][e] = 2

\* the "Average Throughput" lines of the whole job
RECURSIVE AverageLines(_)
AverageLines(n) == IF n = 0 THEN 0 ELSE printed[n - 1] + AverageLines(n - 1)

\* C23: with the ranks 0..world_size-1 given one to each process, only rank 0
\* prints the "Average Throughput" line, the job never holds more than one,
\* rank 0 prints it only after its training loop has run to the end and its
\* process group is destroyed, and a rank 0 that has ended main has printed it
AverageLineByRankZeroOnce ==
    (script \in TrainScripts) =>
        /\ \A r \in ActiveRanks : r # 0 => printed[r] = 0
        /\ AverageLines(world_size) <= 1
        /\ printed[0] = 1 =>
              /\ rank_step[0] = TrainSteps(script, world_size)
              /\ group[0] = "destroyed"
              /\ rank_pc[0] = "done"
        /\ rank_pc[0] = "done" => AverageLines(world_size) = 1

AverageLineByRankZeroOnceWitness ==
    /\ script \in TrainScripts
    /\ world_size = 2
    /\ rank_pc[0] = "done"
    /\ rank_pc[1] = "done"
    /\ printed[0] = 1
    /\ printed[1] = 0
    /\ group[0] = "destroyed"

PowersOfTwo == {1, 2, 4, 8, 16, 32}

Driver == script = "parallel_state"

\* what holds of the driver in every state
DriverStateInvariant ==
    Driver =>
        /\ pc # "start" => tensor_model_parallel_size \in PowersOfTwo
        /\ test # "none" => tensor_model_parallel_size <= world_size
        /\ pc = "done" =>
              /\ tensor_model_parallel_size > world_size
              /\ tensor_model_parallel_size \div 2 <= world_size
        /\ pc = "enter" => ~mp_initialized
        /\ pc \in {"assert_initialized", "checks", "destroy"} => mp_initialized
        /\ pc \in {"start", "while", "initialize", "barrier", "done"} =>
              ~mp_initialized
        /\ pc = "raised" => results = 0
        /\ pc # "raised" => results = 1

\* the size starts at 1 and is only ever doubled, after the second test
DriverSizeStep ==
    Driver =>
        \/ tensor_model_parallel_size' = tensor_model_parallel_size
        \/ /\ pc = "start"
           /\ tensor_model_parallel_size' = 1
        \/ /\ pc = "barrier"
           /\ test = DriverTests[2]
           /\ tensor_model_parallel_size' = 2 * tensor_model_parallel_size

ResultLines == SelectSeq(stdout, LAMBDA l : l.line = "result")

Searching == script \in SearchScripts

\* what holds of the candidates tried so far, in every state of a search
SearchOrderInvariant ==
    Searching =>
        /\ bs_idx >= 1
        /\ pc = "search_loop" =>
              /\ bs_idx <= Len(BatchSizesOf(script))
              /\ batch_size = BatchSizesOf(script)[bs_idx]
        /\ \A k \in 1..(bs_idx - 1) :
              /\ k <= Len(OomLines)
              /\ OomLines[k].batch_size = BatchSizesOf(script)[k]
              /\ k > 1 => OomLines[k].batch_size < OomLines[k - 1].batch_size
        /\ Len(ResultLines) <= 1
        /\ Len(metrics) <= 1
        /\ ResultLines # <<>> =>
              /\ pc \in {"search_report", "done"}
              /\ ResultLines[1].batch_size = BatchSizesOf(script)[bs_idx]
              /\ stdout[Len(OomLines) + 1] = ResultLines[1]
        /\ metrics # <<>> =>
              /\ ResultLines # <<>>
              /\ metrics[1].batch_size = ResultLines[1].batch_size

\* a pass is started with the first candidate, or right after the
\* out-of-memory failure of the candidate listed before it, and never once a
\* pass has completed
SearchPassStart ==
    (Searching /\ pc # "search_loop" /\ pc' = "search_loop") =>
        /\ ResultLines = <<>>
        /\ metrics = <<>>
        /\ \/ bs_idx' = 1 /\ stdout = <<>>
           \/ /\ bs_idx' > 1
              /\ stdout[Len(stdout)] =
                    [line |-> "oom",
                     batch_size |-> BatchSizesOf(script)[bs_idx' - 1]]

\* C27: the search tries the candidates in the listed descending order, goes
\* on to the next smaller one only after an out-of-memory failure of the
\* current one, and stops at the first candidate whose pass completes: no
\* pass is started after a result and at most one result is recorded
SearchStopsAtFirstSuccess ==
    /\ []SearchOrderInvariant
    /\ [][SearchPassStart]_vars

SearchStopsAtFirstSuccessWitness ==
    /\ script = "train_opt"
    /\ pc = "done"
    /\ bs_idx = 3
    /\ Len(OomLines) = 2
    /\ Len(metrics) = 1
    /\ metrics[1].batch_size = 32

\* a failure of the search has propagated
SearchFailed == Searching /\ error \in {"RuntimeError", "ValueError"}

\* C28: a failure of a pass that is not an out-of-memory RuntimeError leaves
\* the search at once: the exception propagates, nothing is recorded or
\* printed for the failing size, and no further step of the search follows
OtherFailurePropagates ==
    /\ [](SearchFailed =>
            /\ pc = "raised"
            /\ st_idx < nbatches
            /\ batch_size = BatchSizesOf(script)[bs_idx]
            /\ Len(OomLines) = bs_idx - 1
            /\ Len(stdout) = Len(OomLines)
            /\ metrics = <<>>)
    /\ [][SearchFailed =>
            UNCHANGED <<pc, error, batch_size, bs_idx, st_idx, nbatches,
                        stdout, metrics>>]_vars

OtherFailurePropagatesWitness ==
    /\ script = "infer_opt"
    /\ pc = "raised"
    /\ error = "RuntimeError"
    /\ bs_idx = 2
    /\ batch_size = 512
    /\ st_idx = 1
    /\ Len(OomLines) = 1

\* every candidate of the list has failed with out-of-memory
AllCandidatesFailed == Searching /\ Len(OomLines) = Len(BatchSizesOf(script))

CountedRowsAreRunRows ==
    (script \in LoopScripts /\ pc = "done" /\ Len(metrics) = 1) =>
        /\ metrics[1].samples = nbatches * batch_size
        /\ metrics[1].samples = rows_processed
        /\ rows_processed = num_samples

====
